---------------------------- MODULE Spec2Model ----------------------------
(***************************************************************************)
(* utilesBack: the in-memory cache manager (cache/cacheManager.js), the    *)
(* generic document gateway (controllers/genericController.js) and the     *)
(* order status state machine (controllers/orderController.js, the variant *)
(* with stock handling).                                                   *)
(*                                                                         *)
(* Atomicity.  Node runs every handler on one thread: the code between two *)
(* awaits runs without interruption, and every await of a datastore call   *)
(* is a point where other requests run.  Each action below is the          *)
(* resumption of a handler after one awaited datastore call: the effect    *)
(* (or failure) of that call followed by all the synchronous code up to    *)
(* the next await or the response.                                         *)
(***************************************************************************)
EXTENDS Integers, Sequences, FiniteSets, TLC

VARIABLES
  now,       \* Date.now(), in milliseconds since the process started
  nticks,    \* how many times the clock was advanced (bounds the model)
  cache,     \* cacheManager.js `cache`: a Map key -> {data, expiry, createdAt}
  call,      \* the last direct call of a cache operation and what it returned
  dbUp,      \* whether the datastore answers (FALSE: every call throws)
  orders,    \* utiles/orders: order id -> document
  stock,     \* utiles/products: refid -> stock
  docs,      \* the generic collection db/col: document id -> document
  reqs,      \* the request being handled in each slot (pc, locals)
  lastDone,  \* the last response sent: slot, request and payload
  nreq       \* how many requests were started (bounds the model)

vars == <<now, nticks, cache, call, dbUp, orders, stock, docs, reqs, lastDone, nreq>>

-----------------------------------------------------------------------------
(* Bounds of the model *)

MaxTicks == 2
MaxCalls == 4
MaxReqs == 3

-----------------------------------------------------------------------------
(* JavaScript values *)

\* null / undefined results are the empty tuple, a present value v is <<v>>
Null == <<>>
Some(v) == <<v>>
Undefined == -1

\* String.prototype.startsWith
StartsWith(key, pattern) ==
  Len(pattern) <= Len(key) /\ SubSeq(key, 1, Len(pattern)) = pattern

\* Map.prototype.delete
MapDelete(m, key) == [k \in (DOMAIN m) \ {key} |-> m[k]]

\* Map.prototype.set
MapSet(m, key, v) == [k \in (DOMAIN m) \cup {key} |-> IF k = key THEN v ELSE m[k]]

EmptyMap == [k \in {} |-> 0]

-----------------------------------------------------------------------------
(* cacheManager.js *)

DEFAULT_TTL == 300000
PRODUCTS_TTL == 600000

\* TTL_CONFIG without its 'default' entry, in declaration order
TTL_CONFIG == << [pattern |-> "utiles/products", ttl |-> PRODUCTS_TTL] >>

RECURSIVE getTTLFrom(_, _)
getTTLFrom(key, i) ==
  IF i > Len(TTL_CONFIG) THEN DEFAULT_TTL
  ELSE IF StartsWith(key, TTL_CONFIG[i].pattern) THEN TTL_CONFIG[i].ttl
  ELSE getTTLFrom(key, i + 1)

\* (mutant) getTTL that knows no rule but the default
getDefaultTTL(key) == DEFAULT_TTL

getTTL(key) == getTTLFrom(key, 1)

\* (mutant) get that returns whatever is stored, expired or not
getIgnoringExpiry(c, key, t) ==
  IF key \notin DOMAIN c THEN [cache |-> c, value |-> Null]
  ELSE [cache |-> c, value |-> Some(c[key].data)]

\* get(key): [cache |-> the store afterwards, value |-> Null or <<data>>]
get(c, key, t) ==
  IF key \notin DOMAIN c THEN [cache |-> c, value |-> Null]
  ELSE IF t > c[key].expiry THEN [cache |-> MapDelete(c, key), value |-> Null]
  ELSE [cache |-> c, value |-> Some(c[key].data)]

\* getStale(key): Null or <<{data, expiry, createdAt, isExpired}>>
getStale(c, key, t) ==
  IF key \notin DOMAIN c THEN Null
  ELSE Some([data |-> c[key].data, expiry |-> c[key].expiry,
             createdAt |-> c[key].createdAt, isExpired |-> t > c[key].expiry])

\* set(key, data, ttl): `ttl || getTTL(key)`, so an absent or zero ttl falls
\* back to the configured one
set(c, key, data, ttl, t) ==
  LET effectiveTTL == IF ttl = Undefined \/ ttl = 0 THEN getTTL(key) ELSE ttl
  IN MapSet(c, key, [data |-> data, expiry |-> t + effectiveTTL, createdAt |-> t])

del(c, key) == MapDelete(c, key)

clear(c) == EmptyMap

\* (mutant) invalidatePattern that removes only the key equal to the pattern
invalidateEqualKey(c, pattern) ==
  LET hit == {k \in DOMAIN c : k = pattern}
  IN [cache |-> [k \in (DOMAIN c) \ hit |-> c[k]], count |-> Cardinality(hit)]

\* invalidatePattern(pattern): [cache |-> the store afterwards, count |-> removed]
invalidatePattern(c, pattern) ==
  LET hit == {k \in DOMAIN c : StartsWith(k, pattern)}
  IN [cache |-> [k \in (DOMAIN c) \ hit |-> c[k]], count |-> Cardinality(hit)]

\* cleanup(): [cache |-> the store afterwards, count |-> removed]
cleanup(c, t) ==
  LET old == {k \in DOMAIN c : t > c[k].expiry}
  IN [cache |-> [k \in (DOMAIN c) \ old |-> c[k]], count |-> Cardinality(old)]

-----------------------------------------------------------------------------
(* Direct use of the cache manager: every exported operation, at any time *)

CacheKeys == {"db/col:a", "utiles/products"}
CachePatterns == {"db/col", "utiles"}
CacheData == {"v1", "v2"}
CacheTTLs == {Undefined, 100}
TickSteps == {1, 100, DEFAULT_TTL}

\* call: the operation, its key (or pattern), its other arguments, what it
\* returned, and the number of calls so far
NoCall == [op |-> "none", key |-> "", args |-> <<>>, result |-> Null, n |-> 0]

Called(op, key, args, result) ==
  /\ call.n < MaxCalls
  /\ call' = [op |-> op, key |-> key, args |-> args, result |-> result, n |-> call.n + 1]

Tick(d) ==
  /\ nticks < MaxTicks
  /\ now' = now + d
  /\ nticks' = nticks + 1
  /\ UNCHANGED <<cache, call, dbUp, orders, stock, docs, reqs, lastDone, nreq>>

CallSet(key, data, ttl) ==
  /\ cache' = set(cache, key, data, ttl, now)
  /\ Called("set", key, <<data, ttl>>, Null)
  /\ UNCHANGED <<now, nticks, dbUp, orders, stock, docs, reqs, lastDone, nreq>>

CallGet(key) ==
  /\ cache' = get(cache, key, now).cache
  /\ Called("get", key, <<>>, get(cache, key, now).value)
  /\ UNCHANGED <<now, nticks, dbUp, orders, stock, docs, reqs, lastDone, nreq>>

CallGetStale(key) ==
  /\ Called("getStale", key, <<>>, getStale(cache, key, now))
  /\ UNCHANGED <<now, nticks, cache, dbUp, orders, stock, docs, reqs, lastDone, nreq>>

CallDel(key) ==
  /\ cache' = del(cache, key)
  /\ Called("del", key, <<>>, Null)
  /\ UNCHANGED <<now, nticks, dbUp, orders, stock, docs, reqs, lastDone, nreq>>

CallClear ==
  /\ cache' = clear(cache)
  /\ Called("clear", "", <<>>, Null)
  /\ UNCHANGED <<now, nticks, dbUp, orders, stock, docs, reqs, lastDone, nreq>>

CallInvalidatePattern(pattern) ==
  /\ cache' = invalidatePattern(cache, pattern).cache
  /\ Called("invalidatePattern", pattern, <<>>, Some(invalidatePattern(cache, pattern).count))
  /\ UNCHANGED <<now, nticks, dbUp, orders, stock, docs, reqs, lastDone, nreq>>

\* also what the 10-minute setInterval runs
CallCleanup ==
  /\ cache' = cleanup(cache, now).cache
  /\ Called("cleanup", "", <<>>, Some(cleanup(cache, now).count))
  /\ UNCHANGED <<now, nticks, dbUp, orders, stock, docs, reqs, lastDone, nreq>>

\* keys of two namespaces of one database, and the prefixes invalidated
PatternKeys == {"db/col:a", "db/col:b", "db/other"}
PatternPrefixes == {"db/col", "db/col:a", "db", "other"}

-----------------------------------------------------------------------------
(* Requests: each slot handles one request at a time *)

Slots == {1, 2}

Idle == [op |-> "none", pc |-> "idle"]

AllIdle == \A s \in Slots : reqs[s].pc = "idle"

OthersIdle(s) == \A r \in Slots \ {s} : reqs[r].pc = "idle"

\* a new request takes the first free slot (which slot holds a request in
\* flight means nothing to the program)
CanStart(s) ==
  /\ reqs[s].pc = "idle"
  /\ \A r \in Slots : r < s => reqs[r].pc # "idle"
  /\ nreq < MaxReqs

\* res.status(code).json(body) for the request of slot s, which ends it,
\* after the socket events the handler emitted in the same run;
\* `sent` is what lastDone keeps of the request, `up` whether the datastore
\* was reachable when the response was sent
RespondEmitting(s, sent, code, body, events) ==
  /\ reqs' = [reqs EXCEPT ![s] = Idle]
  /\ lastDone' = Some([slot |-> s, req |-> sent, code |-> code, body |-> body,
                       up |-> dbUp, emitted |-> events])

\* a response of a handler that emits nothing
Respond(s, sent, code, body) == RespondEmitting(s, sent, code, body, <<>>)

\* errorHandler.js: a datastore outage is a MongoNetworkError
NETWORK_ERROR == 503

\* next(error) with the error a datastore call threw
Fail(s, sent) == Respond(s, sent, NETWORK_ERROR, Null)

-----------------------------------------------------------------------------
(* orderController.js *)

ORDERS_KEY == "utiles/orders"
PRODUCTS_KEY == "utiles/products"

VALID_STATUSES == {"pending", "ready", "shipped", "delivered", "cancelled"}
STOCK_REQUIRED_STATUSES == {"ready", "shipped", "delivered"}

OrderIds == {"o1", "o2"}
Products == {"A", "B"}
InitStock == 10

\* (mutant) ObjectId.isValid that accepts every string
ObjectIdAlwaysValid(id) == TRUE

\* ObjectId.isValid(id): "bad" stands for every malformed id, "o9" for a
\* well-formed id of no order
RequestIds == OrderIds \cup {"o9", "bad"}
RequestStatuses == VALID_STATUSES \cup {"archived"}
ObjectIdIsValid(id) == id # "bad"

\* The items an order may have been created with.  quantity is a number:
\* Number(q) || 0 is then q itself, and an item whose refid is missing ("")
\* or whose quantity is not positive is skipped by both loops.
ItemLists ==
  { <<>>,
    << [refid |-> "A", quantity |-> 3] >>,
    << [refid |-> "A", quantity |-> 1], [refid |-> "B", quantity |-> 2] >>,
    << [refid |-> "A", quantity |-> -1], [refid |-> "B", quantity |-> 1] >>,
    << [refid |-> "", quantity |-> 2], [refid |-> "B", quantity |-> 0] >> }

\* `if (!refid || quantity <= 0) continue`
Skipped(item) == item.refid = "" \/ item.quantity <= 0

\* the first item at or after position i that the loop does not skip
RECURSIVE NextItem(_, _)
NextItem(items, i) ==
  IF i > Len(items) THEN i
  ELSE IF Skipped(items[i]) THEN NextItem(items, i + 1)
  ELSE i

\* productsCol.updateOne({refid}, {$inc: {stock: delta}}): no product, no change
IncStock(st, refid, delta) ==
  IF refid \in DOMAIN st THEN [st EXCEPT ![refid] = @ + delta] ELSE st

\* (mutant) decrementStock without its stockDescontado guard
decrementStockUnguarded(order) == Len(order.items) # 0

\* decrementStock(order) goes past its two early returns
decrementStockRuns(order) ==
  ~(order.stockDescontado = TRUE) /\ Len(order.items) # 0

\* restoreStock(order) goes past its two early returns
restoreStockRuns(order) ==
  order.stockDescontado = TRUE /\ Len(order.items) # 0

\* handleStockOnStatusChange(order, newStatus): which loop runs, if any
\* ("dec": decrementStock, "res": restoreStock, "none": returns null at once)
handleStockOnStatusChange(order, newStatus) ==
  IF newStatus \in STOCK_REQUIRED_STATUSES
    THEN IF decrementStockRuns(order) THEN "dec" ELSE "none"
  ELSE IF newStatus = "cancelled"
    THEN IF restoreStockRuns(order) THEN "res" ELSE "none"
  ELSE "none"

\* (mutant) the $set of updateStatus that leaves a delivered order delivered
UpdateDataDeliveredFinal(order, status, loop) ==
  IF order.status = "delivered" THEN order
  ELSE IF loop = "dec" THEN [order EXCEPT !.status = status, !.stockDescontado = TRUE]
  ELSE IF loop = "res" THEN [order EXCEPT !.status = status, !.stockDescontado = FALSE]
  ELSE [order EXCEPT !.status = status]

\* (mutant) the $set of updateStatus without the flag of a restore
UpdateDataKeepsFlag(order, status, loop) ==
  IF loop = "dec" THEN [order EXCEPT !.status = status, !.stockDescontado = TRUE]
  ELSE [order EXCEPT !.status = status]

\* (mutant) the $set of updateStatus without the stockUpdate
UpdateDataStatusOnly(order, status, loop) == [order EXCEPT !.status = status]

\* the $set of updateStatus: {status, updatedAt} and the stockUpdate, if any
UpdateData(order, status, loop) ==
  IF loop = "dec" THEN [order EXCEPT !.status = status, !.stockDescontado = TRUE]
  ELSE IF loop = "res" THEN [order EXCEPT !.status = status, !.stockDescontado = FALSE]
  ELSE [order EXCEPT !.status = status]

\* what lastDone keeps of an updateStatus request
Sent(req) == [op |-> req.op, id |-> req.id, status |-> req.status, again |-> req.again]

\* the request repeats the transition whose request has just failed (a retry)
RepeatsFailed(id, status) ==
  /\ lastDone # Null
  /\ lastDone[1].code = NETWORK_ERROR
  /\ lastDone[1].req.op = "updateStatus"
  /\ lastDone[1].req.id = id
  /\ lastDone[1].req.status = status

\* GET /api/order/:id/:status arrives: the two validations, then findOne is issued
UpdateStatusStart(s, id, status) ==
  LET req == [op |-> "updateStatus", pc |-> "findOne", id |-> id, status |-> status,
              again |-> RepeatsFailed(id, status),
              loop |-> "none", i |-> 0, items |-> <<>>, stock0 |-> stock]
  IN /\ CanStart(s)
     /\ nreq' = nreq + 1
     /\ IF status \notin VALID_STATUSES \/ ~ObjectIdIsValid(id)
          THEN Respond(s, Sent(req), 400, Null)
          ELSE reqs' = [reqs EXCEPT ![s] = req] /\ UNCHANGED lastDone
     /\ UNCHANGED <<now, nticks, cache, call, dbUp, orders, stock, docs>>

\* the loop of decrementStock / restoreStock is over: the product cache is
\* invalidated and findOneAndUpdate is issued
StockLoopDone(s, req) ==
  /\ cache' = invalidatePattern(cache, PRODUCTS_KEY).cache
  /\ reqs' = [reqs EXCEPT ![s] = [req EXCEPT !.pc = "update"]]
  /\ UNCHANGED lastDone

\* findOne returns: 404, or handleStockOnStatusChange up to its first updateOne
UpdateStatusFindOne(s) ==
  LET req == reqs[s]
      found == req.id \in DOMAIN orders
      order == orders[req.id]
      loop == handleStockOnStatusChange(order, req.status)
      first == NextItem(order.items, 1)
      cont == [req EXCEPT !.loop = loop, !.items = order.items, !.i = first]
  IN /\ req.op = "updateStatus" /\ req.pc = "findOne"
     /\ IF ~dbUp THEN Fail(s, Sent(req)) /\ UNCHANGED cache
        ELSE IF ~found THEN Respond(s, Sent(req), 404, Null) /\ UNCHANGED cache
        ELSE IF loop = "none"
          THEN /\ reqs' = [reqs EXCEPT ![s] = [cont EXCEPT !.pc = "update"]]
               /\ UNCHANGED <<cache, lastDone>>
        ELSE IF first > Len(order.items) THEN StockLoopDone(s, cont)
        ELSE /\ reqs' = [reqs EXCEPT ![s] = [cont EXCEPT !.pc = "updateOne"]]
             /\ UNCHANGED <<cache, lastDone>>
     /\ UNCHANGED <<now, nticks, call, dbUp, orders, stock, docs, nreq>>

\* one updateOne of the loop returns; the loop goes on to its next updateOne
UpdateStatusUpdateOne(s) ==
  LET req == reqs[s]
      item == req.items[req.i]
      delta == IF req.loop = "dec" THEN -item.quantity ELSE item.quantity
      next == NextItem(req.items, req.i + 1)
  IN /\ req.op = "updateStatus" /\ req.pc = "updateOne"
     /\ IF ~dbUp THEN Fail(s, Sent(req)) /\ UNCHANGED <<cache, stock>>
        ELSE /\ stock' = IncStock(stock, item.refid, delta)
             /\ IF next > Len(req.items) THEN StockLoopDone(s, req)
                ELSE /\ reqs' = [reqs EXCEPT ![s] = [req EXCEPT !.i = next]]
                     /\ UNCHANGED <<cache, lastDone>>
     /\ UNCHANGED <<now, nticks, call, dbUp, orders, docs, nreq>>

\* (mutant) the event sent to every connected socket
OrderUpdatedBroadcast(id, status, result) ==
  << [room |-> "", event |-> "order:updated",
      payload |-> [orderId |-> id, status |-> status, order |-> result]] >>

\* io.to('admin').emit('order:updated', {orderId, status, order})
OrderUpdated(id, status, result) ==
  << [room |-> "admin", event |-> "order:updated",
      payload |-> [orderId |-> id, status |-> status, order |-> result]] >>

\* findOneAndUpdate returns the document after the $set (null if the order is
\* gone); the order cache is invalidated, the event emitted and the response
\* sent
UpdateStatusUpdate(s) ==
  LET req == reqs[s]
      found == req.id \in DOMAIN orders
      after == UpdateData(orders[req.id], req.status, req.loop)
  IN /\ req.op = "updateStatus" /\ req.pc = "update"
     /\ IF ~dbUp THEN Fail(s, Sent(req)) /\ UNCHANGED <<cache, orders>>
        ELSE /\ orders' = IF found THEN [orders EXCEPT ![req.id] = after] ELSE orders
             /\ cache' = invalidatePattern(cache, ORDERS_KEY).cache
             /\ RespondEmitting(s, Sent(req), 200, IF found THEN Some(after) ELSE Null,
                                OrderUpdated(req.id, req.status,
                                             IF found THEN Some(after) ELSE Null))
     /\ UNCHANGED <<now, nticks, call, dbUp, stock, docs, nreq>>

\* the datastore becomes unreachable, or reachable again
Outage ==
  /\ dbUp' = ~dbUp
  /\ UNCHANGED <<now, nticks, cache, call, orders, stock, docs, reqs, lastDone, nreq>>

-----------------------------------------------------------------------------
(* genericController.js *)

DATABASE == "db"
COLLECTION == "col"

\* JSON.stringify of a query object, given as its <<name, value>> pairs in order
RECURSIVE JsonPairs(_)
JsonPairs(query) ==
  IF query = <<>> THEN ""
  ELSE "\"" \o query[1][1] \o "\":\"" \o query[1][2] \o "\""
       \o (IF Len(query) > 1 THEN "," ELSE "") \o JsonPairs(Tail(query))

JsonStringify(query) == "{" \o JsonPairs(query) \o "}"

\* (mutant) getCacheKey that ignores the query
getCacheKeyOfCollection(database, collection, query) ==
  database \o "/" \o collection

\* getCacheKey(database, collection, query)
getCacheKey(database, collection, query) ==
  LET queryString == IF Len(query) > 0 THEN ":" \o JsonStringify(query) ELSE ""
  IN database \o "/" \o collection \o queryString

\* (mutant) invalidateCollectionCache that drops only the unparameterized key
invalidateExactKey(c, database, collection) ==
  del(c, database \o "/" \o collection)

\* (mutant) invalidateCollectionCache that drops the lists of the whole database
invalidateDatabaseCache(c, database, collection) ==
  invalidatePattern(c, database).cache

\* invalidateCollectionCache(database, collection): the store afterwards
invalidateCollectionCache(c, database, collection) ==
  invalidatePattern(c, database \o "/" \o collection).cache

\* isValidObjectId(id): 0 stands for every malformed id
BadId == 0

\* (mutant) isValidObjectId that accepts every id
isAnyObjectId(id) == TRUE
isValidObjectId(id) == id # BadId

\* parseQueryOptions(query).filter for the queries of Queries: none of their
\* parameters is reserved and none of their values has an operator prefix or
\* a comma, so each parameter is an equality predicate
QueryFilter(query) ==
  [name \in {query[i][1] : i \in 1..Len(query)} |->
     (CHOOSE i \in 1..Len(query) :
        query[i][1] = name /\ \A j \in (i + 1)..Len(query) : query[j][1] # name)]

FilterValue(query, name) == query[QueryFilter(query)[name]][2]

\* the list requests made: no parameter, and one equality filter
Queries == { <<>>, << <<"a", "x">> >> }

\* request bodies: {} (empty) and {a: "y"}
NoFields == [f \in {} |-> ""]
Bodies == { NoFields, [a |-> "y"] }

\* a body without the field a: {b: "z"}
OtherField == [b |-> "z"]

\* bodies of the bulk routes: an object (not an array), [] and an array
BulkBodies ==
  { [array |-> FALSE, items |-> <<>>],
    [array |-> TRUE, items |-> <<>>],
    [array |-> TRUE, items |-> << [a |-> "y"], [a |-> "x"] >>] }

\* ids of requests: the first document, a well-formed id of no document, a
\* malformed id
MissingId == 9
DocRequestIds == {1, MissingId, BadId}

\* The collection is a sequence: docs[i] is <<document>> for the document
\* with _id i, or Null once it was deleted; inserting appends.
Present(d, i) == i \in DOMAIN d /\ d[i] # Null

\* a document matches a filter of equality predicates
Matches(doc, query) ==
  \A name \in DOMAIN QueryFilter(query) :
    name \in DOMAIN doc /\ doc[name] = FilterValue(query, name)

\* col.find(filter).toArray(): the matching documents in natural order
RECURSIVE FindFrom(_, _, _)
FindFrom(d, query, i) ==
  IF i > Len(d) THEN <<>>
  ELSE (IF Present(d, i) /\ Matches(d[i][1], query)
          THEN << [id |-> i, doc |-> d[i][1]] >> ELSE <<>>)
       \o FindFrom(d, query, i + 1)

Find(d, query) == FindFrom(d, query, 1)

\* col.countDocuments(filter)
CountDocuments(d, query) == Len(Find(d, query))

\* $set: the fields of data replace or extend those of doc
SetFields(doc, data) ==
  [f \in (DOMAIN doc) \cup (DOMAIN data) |-> IF f \in DOMAIN data THEN data[f] ELSE doc[f]]

\* new Date() at time t, as it is stored in a document
Stamp(t) == ToString(t)

\* new Date(ms).toISOString()
ToISOString(ms) == "T" \o ToString(ms) \o "Z"

\* insertOne / insertMany of the bodies, stamped at time t
RECURSIVE InsertAll(_, _, _)
InsertAll(d, items, t) ==
  IF items = <<>> THEN d
  ELSE InsertAll(Append(d, Some(SetFields(Head(items),
                                           [createdAt |-> Stamp(t), updatedAt |-> Stamp(t)]))),
                 Tail(items), t)

\* deleteMany(filter)
DeleteMany(d, query) ==
  [i \in DOMAIN d |-> IF Present(d, i) /\ Matches(d[i][1], query) THEN Null ELSE d[i]]

\* what lastDone keeps of a request of the generic controller
Params(req) == [op |-> req.op, query |-> req.query, id |-> req.id, body |-> req.body]

\* a request of the generic controller: `at` is the time its timestamps were
\* taken, `entry0` what the cache stored under its key when it arrived
GenericReq(op, query, id, body) ==
  [op |-> op, pc |-> "call", query |-> query, id |-> id, body |-> body,
   at |-> now, entry0 |-> Null, documents |-> <<>>]

\* a request arrives and passes its validation: its datastore call is issued
Accept(s, req) ==
  /\ reqs' = [reqs EXCEPT ![s] = req]
  /\ UNCHANGED lastDone

\* (mutant) the payload of a cache hit tagged as if it came from the datastore
HitPayloadUntagged(cached) == cached

\* the payload of a cache hit: {...cached, meta: {...cached.meta, source: 'cache'}}
HitPayload(cached) == [cached EXCEPT !.meta = [cached.meta EXCEPT !.source = "cache"]]

\* the payload built after a miss
MissPayload(documents, total) ==
  [success |-> TRUE, data |-> documents,
   meta |-> [total |-> total, count |-> Len(documents), database |-> DATABASE,
             collection |-> COLLECTION, source |-> "database"]]

\* the payload of the stale fallback
StalePayload(stale) ==
  [success |-> stale.data.success, data |-> stale.data.data,
   meta |-> [total |-> stale.data.meta.total, count |-> stale.data.meta.count,
             database |-> stale.data.meta.database,
             collection |-> stale.data.meta.collection,
             source |-> "cache-stale", stale |-> TRUE,
             cache |-> [createdAt |-> stale.createdAt, expiry |-> ToISOString(stale.expiry),
                        isExpired |-> stale.isExpired]],
   warning |-> "Serving stale data due to database error"]

\* getAll arrives: cache.get, then a hit is answered and a miss issues find
GetAllStart(s, query) ==
  LET req == GenericReq("getAll", query, BadId, NoFields)
      key == getCacheKey(DATABASE, COLLECTION, query)
      got == get(cache, key, now)
  IN /\ CanStart(s)
     /\ nreq' = nreq + 1
     /\ cache' = got.cache
     /\ IF got.value # Null
          THEN Respond(s, Params(req), 200, Some(HitPayload(got.value[1])))
          ELSE Accept(s, [req EXCEPT !.pc = "find",
                                     !.entry0 = getStale(cache, key, now)])
     /\ UNCHANGED <<now, nticks, call, dbUp, orders, stock, docs>>

\* the catch of getAll: the stale entry of the key, if any, else next(error)
GetAllCatch(s, req) ==
  LET stale == getStale(cache, getCacheKey(DATABASE, COLLECTION, req.query), now)
  IN IF stale # Null
       THEN Respond(s, Params(req), 200, Some(StalePayload(stale[1])))
       ELSE Fail(s, Params(req))

\* cursor.toArray() returns
GetAllFind(s) ==
  LET req == reqs[s]
  IN /\ req.op = "getAll" /\ req.pc = "find"
     /\ IF ~dbUp THEN GetAllCatch(s, req)
        ELSE /\ reqs' = [reqs EXCEPT ![s] = [req EXCEPT !.pc = "count",
                                                        !.documents = Find(docs, req.query)]]
             /\ UNCHANGED lastDone
     /\ UNCHANGED <<now, nticks, cache, call, dbUp, orders, stock, docs, nreq>>

\* countDocuments returns: the payload is stored in the cache and sent
GetAllCount(s) ==
  LET req == reqs[s]
      response == MissPayload(req.documents, CountDocuments(docs, req.query))
  IN /\ req.op = "getAll" /\ req.pc = "count"
     /\ IF ~dbUp THEN GetAllCatch(s, req) /\ UNCHANGED cache
        ELSE /\ cache' = set(cache, getCacheKey(DATABASE, COLLECTION, req.query),
                             response, Undefined, now)
             /\ Respond(s, Params(req), 200, Some(response))
     /\ UNCHANGED <<now, nticks, call, dbUp, orders, stock, docs, nreq>>

\* create arrives
CreateStart(s, body) ==
  LET req == GenericReq("create", <<>>, BadId, body)
  IN /\ CanStart(s)
     /\ nreq' = nreq + 1
     /\ IF DOMAIN body = {}
          THEN Respond(s, Params(req), 400, Null)
          ELSE Accept(s, req)
     /\ UNCHANGED <<now, nticks, cache, call, dbUp, orders, stock, docs>>

\* createMany arrives
CreateManyStart(s, body) ==
  LET req == GenericReq("createMany", <<>>, BadId, body)
  IN /\ CanStart(s)
     /\ nreq' = nreq + 1
     /\ IF ~body.array \/ Len(body.items) = 0
          THEN Respond(s, Params(req), 400, Null)
          ELSE Accept(s, req)
     /\ UNCHANGED <<now, nticks, cache, call, dbUp, orders, stock, docs>>

\* update (PUT) or patch (PATCH) arrives: the two handlers have the same body
UpdateStart(s, op, id, body) ==
  LET req == GenericReq(op, <<>>, id, body)
  IN /\ CanStart(s)
     /\ nreq' = nreq + 1
     /\ IF ~isValidObjectId(id) \/ DOMAIN body = {}
          THEN Respond(s, Params(req), 400, Null)
          ELSE Accept(s, req)
     /\ UNCHANGED <<now, nticks, cache, call, dbUp, orders, stock, docs>>

\* remove arrives
RemoveStart(s, id) ==
  LET req == GenericReq("remove", <<>>, id, NoFields)
  IN /\ CanStart(s)
     /\ nreq' = nreq + 1
     /\ IF ~isValidObjectId(id)
          THEN Respond(s, Params(req), 400, Null)
          ELSE Accept(s, req)
     /\ UNCHANGED <<now, nticks, cache, call, dbUp, orders, stock, docs>>

\* (mutant) removeMany that passes any body on to deleteMany
RemoveManyUnchecked(s, filter) ==
  /\ CanStart(s)
  /\ nreq' = nreq + 1
  /\ Accept(s, GenericReq("removeMany", filter, BadId, NoFields))
  /\ UNCHANGED <<now, nticks, cache, call, dbUp, orders, stock, docs>>

\* removeMany arrives: its body is the filter
RemoveManyStart(s, filter) ==
  LET req == GenericReq("removeMany", filter, BadId, NoFields)
  IN /\ CanStart(s)
     /\ nreq' = nreq + 1
     /\ IF Len(filter) = 0
          THEN Respond(s, Params(req), 400, Null)
          ELSE Accept(s, req)
     /\ UNCHANGED <<now, nticks, cache, call, dbUp, orders, stock, docs>>

WriteOps == {"create", "createMany", "update", "patch", "remove", "removeMany"}

\* the collection after the datastore call of a write request
Written(d, req) ==
  IF req.op = "create" THEN InsertAll(d, <<req.body>>, req.at)
  ELSE IF req.op = "createMany" THEN InsertAll(d, req.body.items, req.at)
  ELSE IF req.op \in {"update", "patch"}
    THEN IF Present(d, req.id)
           THEN [d EXCEPT ![req.id] =
                   Some(SetFields(d[req.id][1],
                                  SetFields(req.body, [updatedAt |-> Stamp(req.at)])))]
           ELSE d
  ELSE IF req.op = "remove"
    THEN IF Present(d, req.id) THEN [d EXCEPT ![req.id] = Null] ELSE d
  ELSE DeleteMany(d, req.query)

\* (mutant) a write that never notices that no document matched
AlwaysFound(d, req) == FALSE

\* the datastore call of a write request found nothing to write: 404
NothingFound(d, req) ==
  req.op \in {"update", "patch", "remove"} /\ ~Present(d, req.id)

\* the datastore call of a write returns: 404, or the collection's cache
\* entries are invalidated and the response is sent
WriteReturns(s) ==
  LET req == reqs[s]
  IN /\ req.op \in WriteOps /\ req.pc = "call"
     /\ IF ~dbUp THEN Fail(s, Params(req)) /\ UNCHANGED <<cache, docs>>
        ELSE IF NothingFound(docs, req)
          THEN Respond(s, Params(req), 404, Null) /\ UNCHANGED <<cache, docs>>
        ELSE /\ docs' = Written(docs, req)
             /\ cache' = invalidateCollectionCache(cache, DATABASE, COLLECTION)
             /\ Respond(s, Params(req),
                        IF req.op \in {"create", "createMany"} THEN 201 ELSE 200, Null)
     /\ UNCHANGED <<now, nticks, call, dbUp, orders, stock, nreq>>

\* getOne arrives
GetOneStart(s, id) ==
  LET req == GenericReq("getOne", <<>>, id, NoFields)
  IN /\ CanStart(s)
     /\ nreq' = nreq + 1
     /\ IF ~isValidObjectId(id)
          THEN Respond(s, Params(req), 400, Null)
          ELSE Accept(s, req)
     /\ UNCHANGED <<now, nticks, cache, call, dbUp, orders, stock, docs>>

\* findOne of getOne returns
GetOneReturns(s) ==
  LET req == reqs[s]
  IN /\ req.op = "getOne" /\ req.pc = "call"
     /\ IF ~dbUp THEN Fail(s, Params(req))
        ELSE IF ~Present(docs, req.id) THEN Respond(s, Params(req), 404, Null)
        ELSE Respond(s, Params(req), 200,
                     Some([success |-> TRUE,
                           data |-> [id |-> req.id, doc |-> docs[req.id][1]]]))
     /\ UNCHANGED <<now, nticks, cache, call, dbUp, orders, stock, docs, nreq>>

\* req.body.pipeline of a search: absent, a string, [] and [{$match: {a: "x"}}];
\* the stages of an array are given by the filters they match
Pipelines ==
  { [kind |-> "undefined", stages |-> <<>>],
    [kind |-> "string", stages |-> <<>>],
    [kind |-> "array", stages |-> <<>>],
    [kind |-> "array", stages |-> << << <<"a", "x">> >> >>] }

\* col.aggregate(pipeline).toArray() for $match stages
RECURSIVE Aggregate(_, _)
Aggregate(results, stages) ==
  IF stages = <<>> THEN results
  ELSE Aggregate(SelectSeq(results, LAMBDA r : Matches(r.doc, Head(stages))), Tail(stages))

\* search arrives
SearchStart(s, pipeline) ==
  LET req == GenericReq("search", <<>>, BadId, pipeline)
  IN /\ CanStart(s)
     /\ nreq' = nreq + 1
     /\ IF pipeline.kind # "array"
          THEN Respond(s, Params(req), 400, Null)
          ELSE Accept(s, req)
     /\ UNCHANGED <<now, nticks, cache, call, dbUp, orders, stock, docs>>

\* aggregate(...).toArray() of search returns
SearchReturns(s) ==
  LET req == reqs[s]
      results == Aggregate(Find(docs, <<>>), req.body.stages)
  IN /\ req.op = "search" /\ req.pc = "call"
     /\ IF ~dbUp THEN Fail(s, Params(req))
        ELSE Respond(s, Params(req), 200,
                     Some([success |-> TRUE, data |-> results,
                           meta |-> [count |-> Len(results)]]))
     /\ UNCHANGED <<now, nticks, cache, call, dbUp, orders, stock, docs, nreq>>

-----------------------------------------------------------------------------
(* Specifications *)

InitCommon ==
  /\ now = 0
  /\ nticks = 0
  /\ cache = EmptyMap
  /\ call = NoCall
  /\ dbUp = TRUE
  /\ nreq = 0

CacheInit ==
  /\ InitCommon
  /\ orders = EmptyMap
  /\ stock = EmptyMap
  /\ docs = EmptyMap
  /\ reqs = [s \in Slots |-> Idle]
  /\ lastDone = Null

CacheNext ==
  \/ \E d \in TickSteps : Tick(d)
  \/ \E k \in CacheKeys, v \in CacheData, ttl \in CacheTTLs : CallSet(k, v, ttl)
  \/ \E k \in CacheKeys : CallGet(k)
  \/ \E k \in CacheKeys : CallGetStale(k)
  \/ \E k \in CacheKeys : CallDel(k)
  \/ CallClear
  \/ \E p \in CachePatterns : CallInvalidatePattern(p)
  \/ CallCleanup

CacheSpec == CacheInit /\ [][CacheNext]_vars

\* entries of several namespaces are stored, expire and are invalidated by prefix
PatternNext ==
  \/ Tick(DEFAULT_TTL)
  \/ \E k \in PatternKeys, d \in CacheData, ttl \in CacheTTLs : CallSet(k, d, ttl)
  \/ \E k \in PatternKeys : CallGet(k)
  \/ \E p \in PatternPrefixes : CallInvalidatePattern(p)

PatternSpec == CacheInit /\ [][PatternNext]_vars

\* Orders as created through POST /api/utiles/orders, before any transition
OrderInit ==
  /\ InitCommon
  /\ orders \in [OrderIds -> {[status |-> "pending", stockDescontado |-> FALSE, items |-> l] :
                                l \in ItemLists}]
  /\ stock = [p \in Products |-> InitStock]
  /\ docs = EmptyMap
  /\ reqs = [s \in Slots |-> Idle]
  /\ lastDone = Null

UpdateStatusSteps ==
  \/ \E s \in Slots : UpdateStatusFindOne(s)
  \/ \E s \in Slots : UpdateStatusUpdateOne(s)
  \/ \E s \in Slots : UpdateStatusUpdate(s)

\* completed, non-overlapping, non-failing updateStatus calls
\* the lists that earlier getAll requests left in the cache: the orders, a
\* parameterized list of the orders, the products, a collection whose name
\* begins like the orders', and a collection of another database
OrderCacheKeys ==
  {"utiles/orders", "utiles/orders:{\"status\":\"ready\"}", "utiles/products",
   "utiles/orders_archive", "db/col"}

\* the orders and products as in OrderInit, with those lists cached at time 0
OrderCacheInit ==
  /\ now = 0 /\ nticks = 0 /\ call = NoCall /\ dbUp = TRUE /\ nreq = 0
  /\ cache = [k \in OrderCacheKeys |->
                [data |-> "list", expiry |-> getTTL(k), createdAt |-> 0]]
  /\ orders \in [OrderIds -> {[status |-> "pending", stockDescontado |-> FALSE, items |-> l] :
                                l \in ItemLists}]
  /\ stock = [p \in Products |-> InitStock]
  /\ docs = EmptyMap
  /\ reqs = [s \in Slots |-> Idle]
  /\ lastDone = Null

OrderSeqNext ==
  \/ \E id \in RequestIds, st \in RequestStatuses :
        AllIdle /\ UpdateStatusStart(1, id, st)
  \/ UpdateStatusSteps

OrderSeqSpec == OrderInit /\ [][OrderSeqNext]_vars

\* overlapping updateStatus calls, no datastore failure
OrderConcNext ==
  \/ \E s \in Slots, id \in RequestIds, st \in RequestStatuses : UpdateStatusStart(s, id, st)
  \/ UpdateStatusSteps

OrderConcSpec == OrderInit /\ [][OrderConcNext]_vars

\* non-overlapping updateStatus calls with datastore failures
OrderFailNext ==
  \/ \E id \in RequestIds, st \in RequestStatuses :
        AllIdle /\ UpdateStatusStart(1, id, st)
  \/ UpdateStatusSteps
  \/ Outage

OrderFailSpec == OrderInit /\ [][OrderFailNext]_vars

\* The collection db/col holds one document; nothing is cached yet
GatewayInit ==
  /\ InitCommon
  /\ orders = EmptyMap
  /\ stock = EmptyMap
  /\ docs = << Some([a |-> "x", createdAt |-> Stamp(0), updatedAt |-> Stamp(0)]) >>
  /\ reqs = [s \in Slots |-> Idle]
  /\ lastDone = Null

GatewayStarts(s) ==
  \/ \E q \in Queries : GetAllStart(s, q)
  \/ \E b \in Bodies : CreateStart(s, b)
  \/ \E b \in BulkBodies : CreateManyStart(s, b)
  \/ \E op \in {"update", "patch"}, id \in DocRequestIds, b \in Bodies : UpdateStart(s, op, id, b)
  \/ \E id \in DocRequestIds : RemoveStart(s, id)
  \/ \E q \in Queries : RemoveManyStart(s, q)

GatewaySteps ==
  \/ \E s \in Slots : GetAllFind(s)
  \/ \E s \in Slots : GetAllCount(s)
  \/ \E s \in Slots : WriteReturns(s)

\* non-overlapping updateStatus requests while lists are cached
OrderCacheSpec == OrderCacheInit /\ [][OrderSeqNext]_vars

\* overlapping requests on db/col, the clock advancing, no datastore failure
GatewayConcNext ==
  \/ \E s \in Slots : GatewayStarts(s)
  \/ GatewaySteps
  \/ Tick(DEFAULT_TTL)

GatewayConcSpec == GatewayInit /\ [][GatewayConcNext]_vars

\* non-overlapping requests of every handler of the generic controller on
\* db/col, the clock advancing
GatewaySeqNext ==
  \/ AllIdle /\ GatewayStarts(1)
  \/ \E op \in {"update", "patch"} : AllIdle /\ UpdateStart(1, op, 1, OtherField)
  \/ \E id \in DocRequestIds : AllIdle /\ GetOneStart(1, id)
  \/ \E p \in Pipelines : AllIdle /\ SearchStart(1, p)
  \/ GatewaySteps
  \/ GetOneReturns(1)
  \/ SearchReturns(1)
  \/ Tick(DEFAULT_TTL)

GatewaySeqSpec == GatewayInit /\ [][GatewaySeqNext]_vars

\* non-overlapping requests on db/col, the clock advancing, datastore outages
GatewayFailNext ==
  \/ AllIdle /\ GatewayStarts(1)
  \/ GatewaySteps
  \/ Tick(DEFAULT_TTL)
  \/ Outage

GatewayFailSpec == GatewayInit /\ [][GatewayFailNext]_vars

-----------------------------------------------------------------------------
(* Properties of the order status state machine *)

\* the sum of the quantities of the items of a list that name product p
RECURSIVE ListedQuantity(_, _)
ListedQuantity(items, p) ==
  IF items = <<>> THEN 0
  ELSE (IF Head(items).refid = p THEN Head(items).quantity ELSE 0)
       + ListedQuantity(Tail(items), p)

\* the same sum over the items that have a refid and a positive quantity
RECURSIVE PositiveQuantity(_, _)
PositiveQuantity(items, p) ==
  IF items = <<>> THEN 0
  ELSE (IF Head(items).refid = p /\ Head(items).quantity > 0 THEN Head(items).quantity ELSE 0)
       + PositiveQuantity(Tail(items), p)

\* the listed quantity of p over the orders of os whose stockDescontado is true
RECURSIVE ListedInFlagged(_, _)
ListedInFlagged(os, p) ==
  IF os = {} THEN 0
  ELSE LET o == CHOOSE x \in os : TRUE
       IN (IF orders[o].stockDescontado THEN ListedQuantity(orders[o].items, p) ELSE 0)
          + ListedInFlagged(os \ {o}, p)

\* the positive quantity of p over the orders of os whose stockDescontado is true
RECURSIVE PositiveInFlagged(_, _)
PositiveInFlagged(os, p) ==
  IF os = {} THEN 0
  ELSE LET o == CHOOSE x \in os : TRUE
       IN (IF orders[o].stockDescontado THEN PositiveQuantity(orders[o].items, p) ELSE 0)
          + PositiveInFlagged(os \ {o}, p)

\* items as C1 means them: at least one, each naming a product with a
\* positive quantity
ValidItems(items) ==
  /\ Len(items) > 0
  /\ \A i \in 1..Len(items) : items[i].refid \in Products /\ items[i].quantity > 0

\* slot s sends the 200 of an updateStatus in this step
UpdateStatusSucceeds(s) ==
  /\ reqs[s].op = "updateStatus" /\ reqs[s].pc = "update"
  /\ reqs'[s].pc = "idle"
  /\ lastDone'[1].code = 200

\* C1: with non-overlapping, non-failing calls, a completed updateStatus on
\* an order with valid items leaves every product's stock at its value when
\* the request started, minus the line quantities if the new status is
\* ready/shipped/delivered and the order was not yet decremented, plus them
\* if it is cancelled and the order was decremented, and unchanged otherwise;
\* stockDescontado ends true, false and unchanged respectively.  So repeated
\* transitions of either kind adjust the stock once in total.
C1_StockAdjustedOnce ==
  [][\A s \in Slots :
       (UpdateStatusSucceeds(s) /\ reqs[s].id \in DOMAIN orders
          /\ ValidItems(orders[reqs[s].id].items)) =>
         LET r == reqs[s]
             before == orders[r.id]
             after == orders'[r.id]
         IN IF r.status \in STOCK_REQUIRED_STATUSES
              THEN /\ after.stockDescontado = TRUE
                   /\ \A p \in Products :
                        stock'[p] = r.stock0[p]
                          - (IF before.stockDescontado THEN 0
                             ELSE ListedQuantity(before.items, p))
            ELSE IF r.status = "cancelled"
              THEN /\ after.stockDescontado = FALSE
                   /\ \A p \in Products :
                        stock'[p] = r.stock0[p]
                          + (IF before.stockDescontado THEN ListedQuantity(before.items, p)
                             ELSE 0)
            ELSE /\ after.stockDescontado = before.stockDescontado
                 /\ stock' = r.stock0
     ]_vars

\* C1 witness: a transition into shipped of an order that was already
\* decremented (items [{A,3}], stock 10 -> 7) has skipped the loop and is
\* about to write the order with the stock still at 7
C1_Witness ==
  /\ reqs[1].op = "updateStatus" /\ reqs[1].pc = "update"
  /\ reqs[1].status = "shipped" /\ reqs[1].loop = "none"
  /\ reqs[1].id \in DOMAIN orders
  /\ orders[reqs[1].id].stockDescontado = TRUE
  /\ orders[reqs[1].id].items = << [refid |-> "A", quantity |-> 3] >>
  /\ stock["A"] = InitStock - 3

\* C2 (as claimed): while two updateStatus requests on the same order, both
\* into ready/shipped/delivered, are the only requests made, no product's
\* stock is decremented by more than the order's line quantity
C2_Claimed ==
  \A o \in OrderIds :
    (/\ nreq = 2
     /\ \A s \in Slots : /\ reqs[s].op = "updateStatus"
                          /\ reqs[s].id = o
                          /\ reqs[s].status \in STOCK_REQUIRED_STATUSES)
    => \A p \in Products : stock[p] >= InitStock - PositiveQuantity(orders[o].items, p)

\* C3 (as claimed): between non-overlapping, non-failing calls, the stock of
\* every product is its initial stock minus the quantities of the items
\* naming it in the orders whose stockDescontado is true
C3_Claimed ==
  AllIdle => \A p \in Products : stock[p] = InitStock - ListedInFlagged(OrderIds, p)

\* C3 (amended): between non-overlapping, non-failing calls, the stock of
\* every product is its initial stock minus the quantities of the items that
\* name it with a positive quantity in the orders whose stockDescontado is true
C3_StockConservation ==
  AllIdle => \A p \in Products : stock[p] = InitStock - PositiveInFlagged(OrderIds, p)

\* C3 witness: both orders are decremented, both have a positive line on the
\* same product, and one of them has a line that the loop skipped
C3_Witness ==
  /\ AllIdle
  /\ \E p \in Products :
       /\ \A o \in OrderIds :
            orders[o].stockDescontado /\ PositiveQuantity(orders[o].items, p) > 0
       /\ stock[p] < InitStock - 1
  /\ \E o \in OrderIds : \E i \in 1..Len(orders[o].items) : Skipped(orders[o].items[i])

\* C4 (as claimed): when an updateStatus that failed at a datastore call is
\* requested again and succeeds, every product's stock is its initial stock
\* minus the positive line quantities of the orders whose stockDescontado is
\* true: nothing was adjusted twice or skipped
C4_Claimed ==
  (/\ AllIdle
   /\ nreq = 2
   /\ lastDone # Null
   /\ lastDone[1].code = 200
   /\ lastDone[1].req.op = "updateStatus"
   /\ lastDone[1].req.again)
  => \A p \in Products : stock[p] = InitStock - PositiveInFlagged(OrderIds, p)

-----------------------------------------------------------------------------
(* Properties of the generic controller's cache use *)

COLLECTION_PREFIX == DATABASE \o "/" \o COLLECTION

\* the step answers a request of slot s
Answers(s) ==
  /\ reqs[s].pc # "idle"
  /\ reqs'[s].pc = "idle"
  /\ lastDone' # Null
  /\ lastDone'[1].slot = s

\* the last response was to a write on db/col that succeeded
WriteSucceeded(done) ==
  /\ done # Null
  /\ done[1].req.op \in WriteOps
  /\ done[1].code \in {200, 201}

\* the step is the arrival of a getAll with query q on slot s
GetAllArrives(s, q) ==
  /\ nreq' = nreq + 1
  /\ reqs[s].pc = "idle"
  /\ \/ reqs'[s].pc # "idle" /\ reqs'[s].op = "getAll" /\ reqs'[s].query = q
     \/ /\ reqs' = reqs
        /\ lastDone' # Null
        /\ lastDone'[1].slot = s
        /\ lastDone'[1].req.op = "getAll"
        /\ lastDone'[1].req.query = q

\* the step answers the getAll with query q on arrival, from the cache
AnsweredOnArrival(s, q) ==
  /\ reqs' = reqs
  /\ lastDone' # Null
  /\ lastDone'[1].slot = s
  /\ lastDone'[1].req.op = "getAll"
  /\ lastDone'[1].req.query = q

\* the documents of a list answer show the effect of the write w
Reflects(w, documents, q) ==
  LET Shows(d, body) == \A f \in DOMAIN body : f \in DOMAIN d.doc /\ d.doc[f] = body[f]
      listed == {documents[i] : i \in 1..Len(documents)}
  IN IF w.op = "create"
       THEN Matches(w.body, q) => \E d \in listed : Shows(d, w.body)
     ELSE IF w.op = "createMany"
       THEN \A i \in 1..Len(w.body.items) :
              Matches(w.body.items[i], q) => \E d \in listed : Shows(d, w.body.items[i])
     ELSE IF w.op \in {"update", "patch"}
       THEN /\ \A d \in listed : d.id = w.id => Shows(d, w.body)
            /\ Matches(w.body, q) => \E d \in listed : d.id = w.id
     ELSE IF w.op = "remove"
       THEN \A d \in listed : d.id # w.id
     ELSE \A d \in listed : ~Matches(d.doc, w.query)

\* C5: when a create, createMany, update, patch, remove or removeMany on
\* db/col is answered with success, the cache is left without any entry whose
\* key starts with "db/col", parameterized list keys included; so a getAll
\* that arrives when the last response was that write's and nothing is in
\* flight misses the cache and waits for the datastore, and a find that
\* returns while the last response is that write's and nothing else is in
\* flight lists documents that show the write.
C5_WriteEvictsCollection ==
  [][\A s \in Slots :
       /\ (Answers(s) /\ WriteSucceeded(lastDone') /\ reqs[s].op \in WriteOps)
            => \A k \in DOMAIN cache' : ~StartsWith(k, COLLECTION_PREFIX)
       /\ \A q \in Queries :
            (GetAllArrives(s, q) /\ AllIdle /\ WriteSucceeded(lastDone))
              => /\ reqs'[s].pc = "find"
                 /\ lastDone' = lastDone
       /\ (/\ reqs[s].pc = "find"
           /\ reqs'[s].pc = "count"
           /\ OthersIdle(s)
           /\ WriteSucceeded(lastDone))
            => Reflects(lastDone[1].req, reqs'[s].documents, reqs[s].query)
    ]_vars

\* C5 happens: after three requests, the last answered a successful update of
\* document 1 to a = "y"; a getAll with no parameter that found nothing in
\* the cache has listed the updated document and waits for the count.
C5_Witness ==
  /\ nreq = 3
  /\ WriteSucceeded(lastDone)
  /\ lastDone[1].req.op = "update"
  /\ lastDone[1].req.id = 1
  /\ lastDone[1].req.body = [a |-> "y"]
  /\ \A k \in DOMAIN cache : ~StartsWith(k, COLLECTION_PREFIX)
  /\ \E s \in Slots :
       /\ OthersIdle(s)
       /\ reqs[s].op = "getAll"
       /\ reqs[s].pc = "count"
       /\ reqs[s].query = <<>>
       /\ reqs[s].entry0 = Null
       /\ Len(reqs[s].documents) = 1
       /\ reqs[s].documents[1].doc.a = "y"

\* C6: a getAll that arrives while the cache holds an unexpired entry under
\* its key is answered at once with status 200, source "cache" and exactly
\* the entry's data, whatever the collection holds by then, and leaves the
\* entry in place; without such an entry it is not answered from the cache.
\* (The race that stores pre-write data after the write's invalidation is
\* reached in C6_Witness.)
C6_HitServesStoredData ==
  [][\A s \in Slots : \A q \in Queries :
       GetAllArrives(s, q) =>
         LET key == getCacheKey(DATABASE, COLLECTION, q)
         IN IF key \in DOMAIN cache /\ now <= cache[key].expiry
              THEN /\ AnsweredOnArrival(s, q)
                   /\ lastDone'[1].code = 200
                   /\ lastDone'[1].body # Null
                   /\ lastDone'[1].body[1].meta.source = "cache"
                   /\ lastDone'[1].body[1].data = cache[key].data.data
                   /\ cache' = cache
              ELSE /\ reqs'[s].pc = "find"
                   /\ lastDone' = lastDone
    ]_vars

\* C6 happens: three requests were made, one of them a write (the collection
\* no longer is the initial one); nothing is in flight; the cache holds an
\* unexpired entry for the unparameterized list whose documents are not those
\* of the collection, and the last response served it with source "cache".
C6_Witness ==
  LET key == getCacheKey(DATABASE, COLLECTION, <<>>)
  IN /\ nreq = 3
     /\ AllIdle
     /\ key \in DOMAIN cache
     /\ now <= cache[key].expiry
     /\ cache[key].data.data # Find(docs, <<>>)
     /\ lastDone # Null
     /\ lastDone[1].req.op = "getAll"
     /\ lastDone[1].req.query = <<>>
     /\ lastDone[1].code = 200
     /\ lastDone[1].body[1].meta.source = "cache"
     /\ lastDone[1].body[1].data = cache[key].data.data

\* C7 (as stated): a getAll that arrives while the cache holds an unexpired
\* entry under its key and the datastore is unavailable is answered with
\* status 200, source "cache-stale" and the cached data.
C7_Claimed ==
  [][\A q \in Queries :
       LET key == getCacheKey(DATABASE, COLLECTION, q)
       IN (/\ GetAllArrives(1, q)
           /\ ~dbUp
           /\ key \in DOMAIN cache
           /\ now <= cache[key].expiry)
            => /\ AnsweredOnArrival(1, q)
               /\ lastDone'[1].code = 200
               /\ lastDone'[1].body # Null
               /\ lastDone'[1].body[1].meta.source = "cache-stale"
               /\ lastDone'[1].body[1].data = cache[key].data.data
    ]_vars

\* C7 (amended): a getAll that arrives while the cache holds an unexpired
\* entry under its key and the datastore is unavailable is answered with
\* status 200 and the cached data, tagged source "cache" like any cache hit:
\* the datastore is not asked and the entry stays as it was.
C7_UnexpiredEntryServedAsCache ==
  [][\A q \in Queries :
       LET key == getCacheKey(DATABASE, COLLECTION, q)
       IN (/\ GetAllArrives(1, q)
           /\ ~dbUp
           /\ key \in DOMAIN cache
           /\ now <= cache[key].expiry)
            => /\ AnsweredOnArrival(1, q)
               /\ lastDone'[1].code = 200
               /\ lastDone'[1].body # Null
               /\ lastDone'[1].body[1].success
               /\ lastDone'[1].body[1].meta.source = "cache"
               /\ lastDone'[1].body[1].data = cache[key].data.data
               /\ lastDone'[1].body[1].meta.total = cache[key].data.meta.total
               /\ cache' = cache
               /\ docs' = docs
    ]_vars

\* C7 happens: the last response was sent while the datastore was
\* unavailable, to a parameterized getAll, with status 200 and source "cache",
\* and the entry it served is still stored, unexpired, after the clock moved.
C7_Witness ==
  LET q == << <<"a", "x">> >>
      key == getCacheKey(DATABASE, COLLECTION, q)
  IN /\ AllIdle
     /\ lastDone # Null
     /\ ~lastDone[1].up
     /\ lastDone[1].req.op = "getAll"
     /\ lastDone[1].req.query = q
     /\ lastDone[1].code = 200
     /\ lastDone[1].body[1].meta.source = "cache"
     /\ key \in DOMAIN cache
     /\ cache[key].createdAt < now
     /\ now <= cache[key].expiry
     /\ lastDone[1].body[1].data = cache[key].data.data

\* C8 (as stated): when a datastore call of a getAll fails, the request is
\* answered with status 200 from the entry the cache stored under its key
\* when it arrived, expired as it was (source "cache-stale", stale true, the
\* entry's createdAt, expiry and isExpired, and a warning); status 503 is
\* sent only if no entry was stored under the key when the request arrived.
C8_Claimed ==
  [][(/\ reqs[1].pc \in {"find", "count"}
      /\ reqs[1].op = "getAll"
      /\ ~dbUp
      /\ Answers(1))
       => LET entry0 == reqs[1].entry0
              sent == lastDone'[1]
          IN /\ entry0 # Null =>
                  /\ sent.code = 200
                  /\ sent.body # Null
                  /\ sent.body[1].data = entry0[1].data.data
                  /\ sent.body[1].meta.source = "cache-stale"
                  /\ sent.body[1].meta.stale
                  /\ sent.body[1].meta.cache =
                       [createdAt |-> entry0[1].createdAt,
                        expiry |-> ToISOString(entry0[1].expiry),
                        isExpired |-> TRUE]
                  /\ sent.body[1].warning # ""
             /\ sent.code = NETWORK_ERROR => entry0 = Null
    ]_vars

-----------------------------------------------------------------------------
(* Properties of the cache manager *)

\* the step is a call of the cache manager's function op
Calls(op) == call'.n = call.n + 1 /\ call'.op = op

\* C9: whatever the store holds and whatever the time, get(key) returns a
\* value only if the key has an entry with now <= expiry, and then that
\* entry's data, leaving the entry as it was; if the entry has now > expiry
\* it returns null and the entry is removed; no other entry is changed,
\* removed or added.
C9_GetContract ==
  [][Calls("get") =>
       LET key == call'.key
       IN /\ call'.result # Null
               => /\ key \in DOMAIN cache
                  /\ now <= cache[key].expiry
                  /\ call'.result = Some(cache[key].data)
                  /\ key \in DOMAIN cache'
                  /\ cache'[key] = cache[key]
          /\ (key \in DOMAIN cache /\ now > cache[key].expiry)
               => /\ call'.result = Null
                  /\ key \notin DOMAIN cache'
          /\ \A k \in (DOMAIN cache) \ {key} : k \in DOMAIN cache' /\ cache'[k] = cache[k]
          /\ DOMAIN cache' \subseteq DOMAIN cache
    ]_vars

\* C9 happens: the last call was a get that returned a value for an entry
\* whose expiry is exactly now, and the entry is still stored, next to
\* another entry that is expired and was left in the store.
C9_Witness ==
  /\ call.op = "get"
  /\ call.result # Null
  /\ call.key \in DOMAIN cache
  /\ cache[call.key].expiry = now
  /\ call.result = Some(cache[call.key].data)
  /\ \E k \in (DOMAIN cache) \ {call.key} : now > cache[k].expiry

\* C10 (as stated): right after set(k, v, ttl), get(k) returns v; and a
\* get(k) made once the entry's time to live has elapsed returns null, after
\* which getStale(k) returns v with the entry's expiry and createdAt and
\* isExpired true.
C10_Claimed ==
  [][/\ Calls("set")
          => get(cache', call'.key, now').value = Some(call'.args[1])
     /\ (/\ Calls("get")
         /\ call'.key \in DOMAIN cache
         /\ now > cache[call'.key].expiry)
          => /\ call'.result = Null
             /\ getStale(cache', call'.key, now') =
                  Some([data |-> cache[call'.key].data,
                        expiry |-> cache[call'.key].expiry,
                        createdAt |-> cache[call'.key].createdAt,
                        isExpired |-> TRUE])
    ]_vars

\* C11: invalidatePattern(prefix) removes exactly the entries whose key starts
\* with prefix, expired or not, returns how many it removed, and leaves every
\* other entry as it was.
C11_InvalidatePatternExact ==
  [][Calls("invalidatePattern") =>
       LET prefix == call'.key
           hit == {k \in DOMAIN cache :
                     /\ Len(k) >= Len(prefix)
                     /\ \A i \in 1..Len(prefix) : SubSeq(k, i, i) = SubSeq(prefix, i, i)}
       IN /\ DOMAIN cache' = (DOMAIN cache) \ hit
          /\ \A k \in DOMAIN cache' : cache'[k] = cache[k]
          /\ call'.result = Some(Cardinality(hit))
    ]_vars

\* C11 happens: the last call, invalidatePattern("db/col"), returned 2, and
\* of the three entries stored before it only "db/other" is left, retrievable.
C11_Witness ==
  /\ call.op = "invalidatePattern"
  /\ call.key = "db/col"
  /\ call.n = 4
  /\ call.result = Some(2)
  /\ DOMAIN cache = {"db/other"}
  /\ get(cache, "db/other", now).value # Null
  /\ get(cache, "db/col:a", now).value = Null
  /\ get(cache, "db/col:b", now).value = Null

\* the cache key a list request of db/col with query q is to use
ListKey(q) ==
  IF q = <<>> THEN "db/col"
  ELSE IF q = << <<"a", "x">> >> THEN "db/col:{\"a\":\"x\"}"
  ELSE "?"

\* payload b is payload a with meta.source replaced by source, nothing else
SameButSource(a, b, source) ==
  /\ DOMAIN b = DOMAIN a
  /\ \A f \in (DOMAIN a) \ {"meta"} : b[f] = a[f]
  /\ DOMAIN b.meta = DOMAIN a.meta
  /\ \A f \in (DOMAIN a.meta) \ {"source"} : b.meta[f] = a.meta[f]
  /\ b.meta.source = source

\* C12: a getAll whose key "db/col[:json(query)]" has an unexpired entry is
\* answered on arrival, without a datastore call, with the stored payload
\* changed only in meta.source = "cache", and the entry stays as it was; a
\* getAll that misses waits for the datastore, and when its count returns it
\* answers a payload with meta.source = "database" and stores exactly that
\* payload under the same key for the key's time to live, so that the same
\* request is a hit from then until the entry expires or is invalidated.
C12_CacheAside ==
  [][\A s \in Slots : \A q \in Queries :
       /\ GetAllArrives(s, q) =>
            IF ListKey(q) \in DOMAIN cache /\ now <= cache[ListKey(q)].expiry
              THEN /\ AnsweredOnArrival(s, q)
                   /\ lastDone'[1].code = 200
                   /\ lastDone'[1].body # Null
                   /\ SameButSource(cache[ListKey(q)].data, lastDone'[1].body[1], "cache")
                   /\ cache' = cache
                   /\ docs' = docs
              ELSE /\ reqs'[s].pc = "find"
                   /\ lastDone' = lastDone
       /\ (/\ reqs[s].op = "getAll"
           /\ reqs[s].pc = "count"
           /\ reqs[s].query = q
           /\ Answers(s))
            => /\ lastDone'[1].code = 200
               /\ lastDone'[1].body # Null
               /\ lastDone'[1].body[1].meta.source = "database"
               /\ lastDone'[1].body[1].data = reqs[s].documents
               /\ ListKey(q) \in DOMAIN cache'
               /\ cache'[ListKey(q)].data = lastDone'[1].body[1]
               /\ cache'[ListKey(q)].expiry = now + DEFAULT_TTL
               /\ \A k \in (DOMAIN cache') \ {ListKey(q)} : k \in DOMAIN cache /\ cache'[k] = cache[k]
               /\ get(cache', ListKey(q), now').value = Some(lastDone'[1].body[1])
    ]_vars

\* C12 happens: two requests were made; the last response answered the
\* parameterized list ?a=x from the cache, at the end of the entry's time to
\* live, with the payload that the first request stored with source
\* "database" and that is still stored under "db/col:{"a":"x"}".
C12_Witness ==
  LET key == "db/col:{\"a\":\"x\"}"
  IN /\ nreq = 2
     /\ AllIdle
     /\ lastDone # Null
     /\ lastDone[1].req.op = "getAll"
     /\ lastDone[1].req.query = << <<"a", "x">> >>
     /\ lastDone[1].code = 200
     /\ lastDone[1].body[1].meta.source = "cache"
     /\ DOMAIN cache = {key}
     /\ cache[key].data.meta.source = "database"
     /\ cache[key].expiry = now
     /\ cache[key].createdAt < now
     /\ SameButSource(cache[key].data, lastDone[1].body[1], "cache")
     /\ Len(lastDone[1].body[1].data) = 1

-----------------------------------------------------------------------------
(* Properties of the generic controller's validation and results *)

\* the step is the arrival of a request
Arrives == nreq' = nreq + 1

\* the parameters of the request that arrives in the step, on slot 1
Arrived == IF reqs'[1].pc # "idle" THEN Params(reqs'[1]) ELSE lastDone'[1].req

\* the request is one that validation has to reject
Malformed(r) ==
  \/ r.op \in {"getOne", "update", "patch", "remove"} /\ r.id = BadId
  \/ r.op \in {"create", "update", "patch"} /\ DOMAIN r.body = {}
  \/ r.op = "createMany" /\ (~r.body.array \/ Len(r.body.items) = 0)
  \/ r.op = "search" /\ r.body.kind # "array"

\* the step answers the arriving request at once with the status code, no
\* datastore call is issued and neither the collection nor the cache changes
RejectedOnArrival(code) ==
  /\ reqs'[1].pc = "idle"
  /\ lastDone' # Null
  /\ lastDone'[1].code = code
  /\ lastDone'[1].body = Null
  /\ cache' = cache
  /\ docs' = docs

\* C13: getOne, update, patch and remove with a malformed id, create, update
\* and patch with an empty body, createMany with a body that is not an array
\* or is an empty array, and search with a pipeline that is not an array are
\* answered 400 on arrival: no datastore call is issued, and the cache and the
\* collection are unchanged.
C13_ValidationFirst ==
  [][(Arrives /\ Malformed(Arrived)) => RejectedOnArrival(400)]_vars

\* C13 happens: with a list cached, a patch with a malformed id and the body
\* {a: "y"} was answered 400; the entry and the document are as before.
C13_Witness ==
  /\ nreq = 2
  /\ AllIdle
  /\ lastDone # Null
  /\ lastDone[1].code = 400
  /\ lastDone[1].req.op = "patch"
  /\ lastDone[1].req.id = BadId
  /\ lastDone[1].req.body = [a |-> "y"]
  /\ DOMAIN cache = {"db/col"}
  /\ Len(docs) = 1
  /\ docs[1][1].a = "x"

\* the number of documents the collection holds
Stored(d) == Cardinality({i \in DOMAIN d : Present(d, i)})

\* C14: a removeMany whose body has no filter criterion is answered 400 on
\* arrival: deleteMany is not called, every document stays and no cache entry
\* is invalidated.
C14_EmptyFilterRejected ==
  [][(Arrives /\ Arrived.op = "removeMany" /\ Arrived.query = <<>>)
       => /\ RejectedOnArrival(400)
          /\ Stored(docs') = Stored(docs)
          /\ DOMAIN cache' = DOMAIN cache
    ]_vars

\* C14 happens: with two documents stored and a list cached, a removeMany
\* with an empty body was answered 400, and both documents and the entry
\* are still there.
C14_Witness ==
  /\ nreq = 3
  /\ AllIdle
  /\ lastDone # Null
  /\ lastDone[1].code = 400
  /\ lastDone[1].req.op = "removeMany"
  /\ lastDone[1].req.query = <<>>
  /\ Stored(docs) = 2
  /\ DOMAIN cache = {"db/col"}

\* C15: when the datastore call of a getOne, update, patch or remove with a
\* well-formed id returns and no document has that id, the request is
\* answered 404, and the collection and every cache entry are as before
\* (nothing is invalidated).
C15_NotFoundChangesNothing ==
  [][(/\ reqs[1].pc = "call"
      /\ reqs[1].op \in {"getOne", "update", "patch", "remove"}
      /\ reqs[1].id # BadId
      /\ ~(reqs[1].id \in DOMAIN docs /\ docs[reqs[1].id] # Null)
      /\ dbUp
      /\ Answers(1))
       => /\ lastDone'[1].code = 404
          /\ lastDone'[1].body = Null
          /\ docs' = docs
          /\ cache' = cache
    ]_vars

\* C15 happens: with both lists cached, a remove with an id that no document
\* of the collection has was answered 404, and the two
\* entries and the document are still stored.
C15_Witness ==
  /\ nreq = 3
  /\ AllIdle
  /\ lastDone # Null
  /\ lastDone[1].code = 404
  /\ lastDone[1].req.op = "remove"
  /\ lastDone[1].req.id = MissingId
  /\ DOMAIN cache = {"db/col", "db/col:{\"a\":\"x\"}"}
  /\ Stored(docs) = 1

\* C16 (as stated): after a successful update (PUT) the stored document has
\* the fields of the request body with the body's values and the stamped
\* updatedAt, and no other field that the body lacks (createdAt aside): a
\* field stored before and absent from the body is gone.
C16_Claimed ==
  [][(/\ reqs[1].pc = "call"
      /\ reqs[1].op = "update"
      /\ Answers(1)
      /\ lastDone'[1].code = 200)
       => LET after == docs'[reqs[1].id][1]
              body == reqs[1].body
          IN /\ \A f \in DOMAIN body : f \in DOMAIN after /\ after[f] = body[f]
             /\ after.updatedAt = Stamp(reqs[1].at)
             /\ DOMAIN after \subseteq (DOMAIN body) \cup {"updatedAt", "createdAt"}
    ]_vars

-----------------------------------------------------------------------------
(* Properties of updateStatus: validation, transitions, cache and events *)

\* the parameters of the updateStatus that arrives in the step, on slot 1
ArrivedUpdate == IF reqs'[1].pc # "idle" THEN Sent(reqs'[1]) ELSE lastDone'[1].req

\* the step answers the request of slot 1 with the status code and leaves
\* every order, every stock and every cache entry as it was, emitting nothing
RefusedUnchanged(code) ==
  /\ reqs'[1].pc = "idle"
  /\ lastDone' # Null
  /\ lastDone'[1].code = code
  /\ lastDone'[1].body = Null
  /\ lastDone'[1].emitted = <<>>
  /\ orders' = orders
  /\ stock' = stock
  /\ cache' = cache

\* C17: an updateStatus whose status is none of pending, ready, shipped,
\* delivered, cancelled, or whose id is malformed, is answered 400 on arrival;
\* one with a well-formed id of no order is answered 404 when its findOne
\* returns; in the three cases no order, no stock and no cache entry changes
\* and no order:updated event is emitted (the arrival itself changes none of
\* them either).
C17_RejectedUpdateStatus ==
  [][/\ (Arrives /\ ArrivedUpdate.op = "updateStatus")
          => /\ orders' = orders /\ stock' = stock /\ cache' = cache
             /\ (ArrivedUpdate.status \notin {"pending", "ready", "shipped", "delivered", "cancelled"}
                   \/ ArrivedUpdate.id = "bad")
                  => RefusedUnchanged(400)
     /\ (/\ reqs[1].op = "updateStatus"
         /\ reqs[1].pc = "findOne"
         /\ reqs[1].id \notin DOMAIN orders
         /\ dbUp
         /\ Answers(1))
          => RefusedUnchanged(404)
    ]_vars

\* C17 happens: an updateStatus to ready with a well-formed id of no order was
\* answered 404 after an earlier transition of an existing order; the cached
\* lists of the other collections are still stored and nothing was emitted.
C17_Witness ==
  /\ nreq = 2
  /\ AllIdle
  /\ lastDone # Null
  /\ lastDone[1].code = 404
  /\ lastDone[1].req.op = "updateStatus"
  /\ lastDone[1].req.id = "o9"
  /\ lastDone[1].req.status = "ready"
  /\ lastDone[1].emitted = <<>>
  /\ "utiles/products" \in DOMAIN cache
  /\ "db/col" \in DOMAIN cache
  /\ \E o \in OrderIds : orders[o].status = "shipped"

\* C18: whatever the status of an existing order and whichever of the five
\* statuses is requested (the same one included), the updateStatus is not
\* refused: it is accepted on arrival, goes on after its findOne, and when its
\* findOneAndUpdate returns it is answered 200 and the order has the
\* requested status.
C18_AnyTransitionAccepted ==
  [][/\ (/\ Arrives
         /\ ArrivedUpdate.op = "updateStatus"
         /\ ArrivedUpdate.status \in {"pending", "ready", "shipped", "delivered", "cancelled"}
         /\ ArrivedUpdate.id \in DOMAIN orders)
          => reqs'[1].pc = "findOne" /\ lastDone' = lastDone
     /\ (/\ reqs[1].op = "updateStatus"
         /\ reqs[1].pc = "findOne"
         /\ reqs[1].id \in DOMAIN orders)
          => reqs'[1].pc \in {"findOne", "updateOne", "update"} /\ lastDone' = lastDone
     /\ (/\ reqs[1].op = "updateStatus"
         /\ reqs[1].pc = "updateOne")
          => reqs'[1].pc \in {"updateOne", "update"} /\ lastDone' = lastDone
     /\ (/\ reqs[1].op = "updateStatus"
         /\ reqs[1].pc = "update"
         /\ Answers(1))
          => /\ lastDone'[1].code = 200
             /\ orders'[reqs[1].id].status = reqs[1].status
             /\ lastDone'[1].body = Some(orders'[reqs[1].id])
    ]_vars

\* C18 happens: of three requests, the last moved order o1, whose stock is
\* deducted (it was ready, shipped or delivered), back to pending and was
\* answered 200; order o2 was moved from pending straight to delivered.
C18_Witness ==
  /\ nreq = 3
  /\ AllIdle
  /\ lastDone # Null
  /\ lastDone[1].code = 200
  /\ lastDone[1].req.op = "updateStatus"
  /\ lastDone[1].req.id = "o1"
  /\ lastDone[1].req.status = "pending"
  /\ orders["o1"].status = "pending"
  /\ orders["o1"].stockDescontado = TRUE
  /\ orders["o2"].status = "delivered"

\* the key belongs to the lists of the collection namespace ns
InNamespace(k, ns) == k = ns \/ StartsWith(k, ns \o ":")

\* the step is one of the updateStatus of slot 1
UpdateStatusStep ==
  /\ reqs[1].op = "updateStatus"
  /\ reqs[1].pc # "idle"
  /\ reqs'[1] # reqs[1]

\* the step answers the updateStatus of slot 1 with success
UpdateStatusDone ==
  /\ reqs[1].op = "updateStatus"
  /\ reqs[1].pc = "update"
  /\ Answers(1)
  /\ lastDone'[1].code = 200

\* the step removes some entry of the cache that satisfies P
Removes(P(_)) == \E k \in DOMAIN cache : P(k) /\ k \notin DOMAIN cache'

\* C19 (as stated): a successful updateStatus leaves no entry of the namespace
\* "utiles/orders"; entries of the namespace "utiles/products" are removed
\* only by a request that changed some stock, and none is left once a request
\* that changed some stock is answered; the entries of every other namespace
\* are never changed.
C19_Claimed ==
  [][/\ UpdateStatusDone
          => /\ \A k \in DOMAIN cache' : ~InNamespace(k, ORDERS_KEY)
             /\ stock # reqs[1].stock0
                  => \A k \in DOMAIN cache' : ~InNamespace(k, PRODUCTS_KEY)
     /\ UpdateStatusStep
          => /\ Removes(LAMBDA k : InNamespace(k, PRODUCTS_KEY)) => stock' # reqs[1].stock0
             /\ \A k \in DOMAIN cache :
                  (~InNamespace(k, ORDERS_KEY) /\ ~InNamespace(k, PRODUCTS_KEY))
                    => k \in DOMAIN cache' /\ cache'[k] = cache[k]
    ]_vars

\* C19 (amended): a successful updateStatus leaves no entry whose key starts
\* with "utiles/orders" (lists of a collection whose name begins with
\* "orders" included); entries whose key starts with "utiles/products" are
\* removed exactly by a request whose decrementStock or restoreStock ran its
\* loop, at the end of the loop, whether or not an item changed a stock; the
\* entries whose key starts with neither prefix are never changed.
C19_PrefixInvalidation ==
  [][/\ UpdateStatusDone
          => /\ \A k \in DOMAIN cache' : ~StartsWith(k, ORDERS_KEY)
             /\ reqs[1].loop # "none"
                  => \A k \in DOMAIN cache' : ~StartsWith(k, PRODUCTS_KEY)
     /\ UpdateStatusStep
          => /\ Removes(LAMBDA k : StartsWith(k, PRODUCTS_KEY))
                  => /\ reqs'[1].pc = "update"
                     /\ reqs'[1].loop # "none"
                     /\ reqs[1].pc \in {"findOne", "updateOne"}
             /\ Removes(LAMBDA k : StartsWith(k, ORDERS_KEY)) => UpdateStatusDone
             /\ \A k \in DOMAIN cache :
                  (~StartsWith(k, ORDERS_KEY) /\ ~StartsWith(k, PRODUCTS_KEY))
                    => k \in DOMAIN cache' /\ cache'[k] = cache[k]
             /\ DOMAIN cache' \subseteq DOMAIN cache
    ]_vars

\* C19 happens: the first request moved an order whose items are all skipped
\* by the stock loop to ready and was answered 200: no stock changed, yet the
\* products list is gone from the cache, with the lists of orders and of
\* orders_archive; the list of db/col is still stored.
C19_Witness ==
  /\ nreq = 1
  /\ AllIdle
  /\ lastDone # Null
  /\ lastDone[1].code = 200
  /\ lastDone[1].req.op = "updateStatus"
  /\ lastDone[1].req.status = "ready"
  /\ orders[lastDone[1].req.id].stockDescontado = TRUE
  /\ \A i \in 1..Len(orders[lastDone[1].req.id].items) :
       Skipped(orders[lastDone[1].req.id].items[i])
  /\ \A p \in Products : stock[p] = InitStock
  /\ DOMAIN cache = {"db/col"}

-----------------------------------------------------------------------------
(* parseQueryOptions(query): the query is the sequence of the <<name, value>>
   pairs of req.query in the order of its keys, every name once, every value
   a string *)

\* str.includes(ch), ch one character
Includes(str, ch) == \E i \in 1..Len(str) : SubSeq(str, i, i) = ch

\* str.slice(n)
Slice(str, n) == SubSeq(str, n + 1, Len(str))

\* str.trim(), for the white space " "
RECURSIVE Trim(_)
Trim(str) ==
  IF str = "" THEN ""
  ELSE IF SubSeq(str, 1, 1) = " " THEN Trim(Slice(str, 1))
  ELSE IF SubSeq(str, Len(str), Len(str)) = " " THEN Trim(SubSeq(str, 1, Len(str) - 1))
  ELSE str

\* str.split(sep), sep one character: the pieces, at least one
RECURSIVE SplitFrom(_, _, _, _)
SplitFrom(str, sep, start, i) ==
  IF i > Len(str) THEN << SubSeq(str, start, Len(str)) >>
  ELSE IF SubSeq(str, i, i) = sep
    THEN << SubSeq(str, start, i - 1) >> \o SplitFrom(str, sep, i + 1, i + 1)
  ELSE SplitFrom(str, sep, start, i + 1)

Split(str, sep) == SplitFrom(str, sep, 1, 1)

\* str.toLowerCase(), for the letters of the alphabet
UpperCase == "ABCDEFGHIJKLMNOPQRSTUVWXYZ"
LowerCase == "abcdefghijklmnopqrstuvwxyz"

RECURSIVE ToLowerCase(_)
ToLowerCase(str) ==
  IF str = "" THEN ""
  ELSE LET c == SubSeq(str, 1, 1)
           at == {i \in 1..Len(UpperCase) : SubSeq(UpperCase, i, i) = c}
       IN (IF at = {} THEN c
           ELSE LET i == CHOOSE j \in at : TRUE IN SubSeq(LowerCase, i, i))
          \o ToLowerCase(Slice(str, 1))

\* the value of a decimal digit, -1 for any other character
Digits == "0123456789"
DigitValue(c) ==
  LET at == {i \in 1..Len(Digits) : SubSeq(Digits, i, i) = c}
  IN IF at = {} THEN -1 ELSE (CHOOSE i \in at : TRUE) - 1

\* the longest run of digits at the start of str: [n |-> value, len |-> digits]
RECURSIVE DigitRun(_, _, _)
DigitRun(str, n, len) ==
  IF str = "" \/ DigitValue(SubSeq(str, 1, 1)) < 0 THEN [n |-> n, len |-> len]
  ELSE DigitRun(Slice(str, 1), 10 * n + DigitValue(SubSeq(str, 1, 1)), len + 1)

\* NaN, and the other numbers as mantissa / 10^decimals
NaN == [nan |-> TRUE, m |-> 0, d |-> 0]
Num(m, d) == [nan |-> FALSE, m |-> m, d |-> d]

\* parseInt(str) for decimal notation: white space, a sign, digits; whatever
\* follows the digits is ignored
ParseInt(str) ==
  LET t == Trim(str)
      neg == t # "" /\ SubSeq(t, 1, 1) = "-"
      signed == t # "" /\ SubSeq(t, 1, 1) \in {"-", "+"}
      run == DigitRun(IF signed THEN Slice(t, 1) ELSE t, 0, 0)
  IN IF run.len = 0 THEN NaN ELSE Num(IF neg THEN -run.n ELSE run.n, 0)

\* 10^d
RECURSIVE Pow10(_)
Pow10(d) == IF d = 0 THEN 1 ELSE 10 * Pow10(d - 1)

\* parseFloat(str) for decimal notation without exponent: white space, a
\* sign, digits, and a point with digits
ParseFloat(str) ==
  LET t == Trim(str)
      neg == t # "" /\ SubSeq(t, 1, 1) = "-"
      signed == t # "" /\ SubSeq(t, 1, 1) \in {"-", "+"}
      body == IF signed THEN Slice(t, 1) ELSE t
      whole == DigitRun(body, 0, 0)
      rest == Slice(body, whole.len)
      frac == IF rest # "" /\ SubSeq(rest, 1, 1) = "."
                THEN DigitRun(Slice(rest, 1), 0, 0) ELSE [n |-> 0, len |-> 0]
      m == whole.n * Pow10(frac.len) + frac.n
  IN IF whole.len = 0 /\ frac.len = 0 THEN NaN
     ELSE Num(IF neg THEN -m ELSE m, frac.len)

\* a || b for numbers: b when a is NaN or 0
OrElse(a, b) == IF a.nan \/ a.m = 0 THEN b ELSE a.m

Max(a, b) == IF a >= b THEN a ELSE b
Min(a, b) == IF a <= b THEN a ELSE b

\* query[name]: <<value>>, or Null when the query has no such parameter
Param(query, name) ==
  LET at == {i \in 1..Len(query) : query[i][1] = name}
  IN IF at = {} THEN Null ELSE Some(query[CHOOSE i \in at : TRUE][2])

\* a parameter is truthy when it is given and is not the empty string
Truthy(p) == p # Null /\ p[1] # ""

\* (mutant) the limit without its lower and upper bound
UnclampedLimit(str) == OrElse(ParseInt(str), 10)

\* Math.min(100, Math.max(1, parseInt(query.limit) || 10))
ClampedLimit(str) == Min(100, Max(1, OrElse(ParseInt(str), 10)))

\* the pagination block: [skip, limit]
Pagination(query) ==
  LET page == Param(query, "page")
      limit == Param(query, "limit")
  IN IF Truthy(page) /\ Truthy(limit)
       THEN [skip |-> (Max(1, OrElse(ParseInt(page[1]), 1)) - 1) * ClampedLimit(limit[1]),
             limit |-> ClampedLimit(limit[1])]
     ELSE IF Truthy(limit)
       THEN [skip |-> 0, limit |-> ClampedLimit(limit[1])]
     ELSE [skip |-> 0, limit |-> 0]

\* obj[key] = value on an object given as the sequence of its <<key, value>>
\* pairs: a key it has keeps its place
Assign(obj, key, value) ==
  IF \E i \in 1..Len(obj) : obj[i][1] = key
    THEN [i \in 1..Len(obj) |-> IF obj[i][1] = key THEN <<key, value>> ELSE obj[i]]
    ELSE Append(obj, <<key, value>>)

\* the sort block: options.sort after the parts from index i on
RECURSIVE SortFrom(_, _, _)
SortFrom(parts, i, sort) ==
  IF i > Len(parts) THEN sort
  ELSE LET pieces == Split(parts[i], ":")
           field == pieces[1]
           desc == Len(pieces) > 1 /\ ToLowerCase(pieces[2]) = "desc"
       IN SortFrom(parts, i + 1,
                   IF field # "" THEN Assign(sort, Trim(field), IF desc THEN -1 ELSE 1)
                   ELSE sort)

Sorting(query) ==
  LET sort == Param(query, "sort")
  IN IF Truthy(sort) THEN SortFrom(Split(sort[1], ","), 1, <<>>) ELSE <<>>

\* the projection block: the fields that options.projection sets to 1
Projection(query) ==
  LET fields == Param(query, "fields")
      parts == IF Truthy(fields) THEN Split(fields[1], ",") ELSE <<>>
  IN {Trim(parts[i]) : i \in {j \in 1..Len(parts) : Trim(parts[j]) # ""}}

\* the trimmed parts of value.split(',')
TrimAll(parts) == [i \in 1..Len(parts) |-> Trim(parts[i])]

\* (mutant) the predicate of a value, the comma rule tried before the prefixes
PredicateCommaFirst(value) ==
  IF Includes(value, ",") THEN [op |-> "$in", list |-> TrimAll(Split(value, ","))]
  ELSE IF StartsWith(value, "gte:") THEN [op |-> "$gte", num |-> ParseFloat(Slice(value, 4))]
  ELSE [op |-> "$eq", str |-> value]

\* the predicate that the filter block makes of a string value
Predicate(value) ==
  IF StartsWith(value, "gte:") THEN [op |-> "$gte", num |-> ParseFloat(Slice(value, 4))]
  ELSE IF StartsWith(value, "lte:") THEN [op |-> "$lte", num |-> ParseFloat(Slice(value, 4))]
  ELSE IF StartsWith(value, "gt:") THEN [op |-> "$gt", num |-> ParseFloat(Slice(value, 3))]
  ELSE IF StartsWith(value, "lt:") THEN [op |-> "$lt", num |-> ParseFloat(Slice(value, 3))]
  ELSE IF StartsWith(value, "ne:") THEN [op |-> "$ne", str |-> Slice(value, 3)]
  ELSE IF StartsWith(value, "regex:")
    THEN [op |-> "$regex", str |-> Slice(value, 6), options |-> "i"]
  ELSE IF Includes(value, ",") THEN [op |-> "$in", list |-> TrimAll(Split(value, ","))]
  ELSE [op |-> "$eq", str |-> value]

\* (mutant) the reserved names without fields
ReservedButFields == {"page", "limit", "sort"}

reservedParams == {"page", "limit", "sort", "fields"}

\* the filter block: options.filter as the sequence of its <<name, predicate>>
\* pairs, after the parameters from index i on
RECURSIVE FilterFrom(_, _, _)
FilterFrom(query, i, filter) ==
  IF i > Len(query) THEN filter
  ELSE FilterFrom(query, i + 1,
                  IF query[i][1] \notin reservedParams
                    THEN Assign(filter, query[i][1], Predicate(query[i][2]))
                    ELSE filter)

parseQueryOptions(query) ==
  [filter |-> FilterFrom(query, 1, <<>>),
   sort |-> Sorting(query),
   skip |-> Pagination(query).skip,
   limit |-> Pagination(query).limit,
   projection |-> Projection(query)]

\* the values a request gives to its parameters ("-" stands for: not given)
NotGiven == "-"
PageValues == {NotGiven, "", "0", "-3", "2", "x"}
LimitValues == {NotGiven, "", "0", "-5", "5", "100", "101", "7.9", "x"}
SortValues == {NotGiven, "price:desc,name:asc", " name :DESC,,name"}
FieldsValues == {NotGiven, " name , ,price"}
CategoryValues == {NotGiven, "pens", "ne:red", "regex:^pe", "a, b,c"}
PriceValues == {NotGiven, "gte:10", "lte:2.50", "gt:-3", "lt:x", "gt:1,2"}

\* req.query for given values of page, limit, sort, fields, category, price
QueryOf(values) ==
  LET names == <<"page", "limit", "sort", "fields", "category", "price">>
      given == SelectSeq(<<1, 2, 3, 4, 5, 6>>, LAMBDA i : values[i] # NotGiven)
  IN [i \in 1..Len(given) |-> <<names[given[i]], values[given[i]]>>]

ParsedQueries ==
  {QueryOf(<<p, l, s, f, c, pr>>) :
     p \in PageValues, l \in LimitValues, s \in SortValues,
     f \in FieldsValues, c \in CategoryValues, pr \in PriceValues}

\* getAll, count and distinct call parseQueryOptions(req.query)
CallParseQueryOptions(query) ==
  /\ Called("parseQueryOptions", "", <<query>>, Some(parseQueryOptions(query)))
  /\ UNCHANGED <<now, nticks, cache, dbUp, orders, stock, docs, reqs, lastDone, nreq>>

\* the specification of the query parser: a request arrives with any of the
\* queries, and the handler parses it
ParseRequest(query) ==
  [op |-> "request", key |-> "", args |-> <<query>>, result |-> Null, n |-> 0]

ParseInit ==
  /\ now = 0
  /\ nticks = 0
  /\ cache = EmptyMap
  /\ call \in {ParseRequest(query) : query \in ParsedQueries}
  /\ dbUp = TRUE
  /\ nreq = 0
  /\ orders = EmptyMap
  /\ stock = EmptyMap
  /\ docs = EmptyMap
  /\ reqs = [s \in Slots |-> Idle]
  /\ lastDone = Null

ParseNext == call.op = "request" /\ CallParseQueryOptions(call.args[1])

ParseSpec == ParseInit /\ [][ParseNext]_vars

\* the query and the options of a finished call of parseQueryOptions
Parsed == call.op = "parseQueryOptions"
ParsedQuery == call.args[1]
ParsedOptions == call.result[1]

\* the names of an object given as the sequence of its pairs
Names(obj) == {obj[i][1] : i \in 1..Len(obj)}

\* C21: the filter that parseQueryOptions builds has none of the reserved
\* names page, limit, sort and fields, and has every other parameter of the
\* query exactly once
C21_FilterExcludesReserved ==
  Parsed =>
    /\ Names(ParsedOptions.filter) \cap {"page", "limit", "sort", "fields"} = {}
    /\ \A name \in Names(ParsedQuery) \ {"page", "limit", "sort", "fields"} :
         Cardinality({i \in 1..Len(ParsedOptions.filter) :
                        ParsedOptions.filter[i][1] = name}) = 1

\* C21 witness: a parsed query with reserved and other parameters
C21_Witness ==
  /\ Parsed
  /\ {"page", "fields", "category", "price"} \subseteq Names(ParsedQuery)
  /\ Names(ParsedOptions.filter) = {"category", "price"}

\* the integers that the values of page and limit denote
IntegerValues ==
  [str \in {"0", "-3", "2", "-5", "5", "100", "101"} |->
     CASE str = "0" -> 0 [] str = "-3" -> 0 - 3 [] str = "2" -> 2
       [] str = "-5" -> 0 - 5 [] str = "5" -> 5 [] str = "100" -> 100
       [] str = "101" -> 101]

IsInteger(p) == p # Null /\ p[1] \in DOMAIN IntegerValues

Clamp(x, lo, hi) == IF x < lo THEN lo ELSE IF x > hi THEN hi ELSE x

\* the pagination of a parsed query is the one of the integers page and
\* limit, with limit read as the integer eff
PaginationIs(eff(_)) ==
  LET page == Param(ParsedQuery, "page")
      limit == Param(ParsedQuery, "limit")
  IN /\ (IsInteger(page) /\ IsInteger(limit)) =>
          /\ ParsedOptions.limit = Clamp(eff(IntegerValues[limit[1]]), 1, 100)
          /\ ParsedOptions.skip =
               (Max(1, IntegerValues[page[1]]) - 1) * ParsedOptions.limit
     /\ (page = Null /\ IsInteger(limit)) =>
          /\ ParsedOptions.limit = Clamp(eff(IntegerValues[limit[1]]), 1, 100)
          /\ ParsedOptions.skip = 0
     /\ limit = Null => ParsedOptions.skip = 0 /\ ParsedOptions.limit = 0

\* C22 as claimed: for all integers page and limit, skip is
\* (max(1, page) - 1) * clamp(limit, 1, 100) and limit is clamp(limit, 1, 100)
\* when both are given, skip is 0 and limit the clamp when only limit is
\* given, and both are 0 when limit is absent
C22_Claimed == Parsed => PaginationIs(LAMBDA x : x)

\* C22 amended: the same with a limit of 0 read as the default 10, not
\* clamped up to 1
C22_PaginationClamped == Parsed => PaginationIs(LAMBDA x : IF x = 0 THEN 10 ELSE x)

\* C22 witness: pages and limits outside the range were parsed: here page -3
\* with limit 101
C22_Witness ==
  /\ Parsed
  /\ Param(ParsedQuery, "page") = Some("-3")
  /\ Param(ParsedQuery, "limit") = Some("101")
  /\ ParsedOptions.skip = 0
  /\ ParsedOptions.limit = 100

\* the filter's predicate for a parameter of the parsed query
PredicateOf(name) ==
  ParsedOptions.filter[CHOOSE i \in 1..Len(ParsedOptions.filter) :
                         ParsedOptions.filter[i][1] = name][2]

\* the prefix of a value among the operator prefixes, "" when it has none
PrefixOf(value) ==
  IF \E p \in {"gte:", "lte:", "gt:", "lt:", "ne:", "regex:"} : StartsWith(value, p)
    THEN CHOOSE p \in {"gte:", "lte:", "gt:", "lt:", "ne:", "regex:"} : StartsWith(value, p)
    ELSE ""

\* the example request of the filter syntax
ExampleQuery ==
  << <<"page", "2">>, <<"limit", "5">>, <<"sort", "price:desc,name:asc">>,
     <<"category", "pens">>, <<"price", "gte:10">> >>

\* C23: a value with the prefix gte:, lte:, gt: or lt: becomes the numeric
\* range operator on the remainder, ne: becomes not-equal and regex: a
\* case-insensitive regular expression on the remainder; without prefix a
\* value with a comma becomes membership in its trimmed parts and any other
\* value equality; a prefix wins over a comma; the example request gives
\* skip 5, limit 5, sort {price: -1, name: 1} and the filter
\* {category: "pens", price: {$gte: 10}}
C23_FilterConstruction ==
  Parsed =>
    /\ \A i \in 1..Len(ParsedQuery) :
         LET name == ParsedQuery[i][1]
             value == ParsedQuery[i][2]
             prefix == PrefixOf(value)
             rest == SubSeq(value, Len(prefix) + 1, Len(value))
         IN name \notin {"page", "limit", "sort", "fields"} =>
              LET p == PredicateOf(name)
              IN /\ prefix \in {"gte:", "lte:", "gt:", "lt:"} =>
                      /\ p.op = "$" \o SubSeq(prefix, 1, Len(prefix) - 1)
                      /\ rest = "10" => p.num = Num(10, 0)
                      /\ rest = "2.50" => p.num = Num(250, 2)
                      /\ rest = "-3" => p.num = Num(0 - 3, 0)
                      /\ rest = "x" => p.num.nan
                 /\ prefix = "ne:" => p = [op |-> "$ne", str |-> rest]
                 /\ prefix = "regex:" =>
                      p = [op |-> "$regex", str |-> rest, options |-> "i"]
                 /\ (prefix = "" /\ Includes(value, ",")) =>
                      /\ p.op = "$in"
                      /\ value = "a, b,c" => p.list = <<"a", "b", "c">>
                 /\ (prefix = "" /\ ~Includes(value, ",")) =>
                      p = [op |-> "$eq", str |-> value]
    /\ ParsedQuery = ExampleQuery =>
         ParsedOptions =
           [filter |-> << <<"category", [op |-> "$eq", str |-> "pens"]>>,
                          <<"price", [op |-> "$gte", num |-> Num(10, 0)]>> >>,
            sort |-> << <<"price", 0 - 1>>, <<"name", 1>> >>,
            skip |-> 5,
            limit |-> 5,
            projection |-> {}]

\* C23 witness: a value with a prefix and a comma was parsed, next to a
\* list of values
C23_Witness ==
  /\ Parsed
  /\ Param(ParsedQuery, "price") = Some("gt:1,2")
  /\ PredicateOf("price").op = "$gt"
  /\ Param(ParsedQuery, "category") = Some("a, b,c")
  /\ PredicateOf("category").op = "$in"

\* entries of the products namespace and of another one are set with no ttl,
\* with a ttl of 0 and with a positive ttl, and overwritten later
SetKeys == {"utiles/products", "utiles/products:{}", "db/col:a"}
SetTTLs == {Undefined, 0, 100}

SetNext ==
  \/ Tick(1)
  \/ \E k \in SetKeys, d \in CacheData, ttl \in SetTTLs : CallSet(k, d, ttl)

SetSpec == CacheInit /\ [][SetNext]_vars

\* set(key, value, ttl) stores, in place of any entry of the key, the value
\* with createdAt now and expiry now + T, T being the ttl when explicit(ttl)
\* holds, else 10 minutes for a key of "utiles/products", else 5 minutes
SetStores(explicit(_)) ==
  Calls("set") =>
       LET key == call'.key
           ttl == call'.args[2]
           T == IF explicit(ttl) THEN ttl
                ELSE IF StartsWith(key, "utiles/products") THEN 10 * 60 * 1000
                ELSE 5 * 60 * 1000
       IN /\ DOMAIN cache' = DOMAIN cache \cup {key}
          /\ cache'[key] = [data |-> call'.args[1], expiry |-> now + T, createdAt |-> now]
          /\ \A k \in (DOMAIN cache) \ {key} : cache'[k] = cache[k]

\* C24 as claimed: set stores the entry with expiry = now + T, T the ttl
\* whenever one is given, 0 included, else the configured rule of the key's
\* prefix, else the 5 minute default
C24_Claimed == [][SetStores(LAMBDA ttl : ttl # Undefined)]_vars

\* C24 amended: the ttl counts as given only when it is not 0; set with a ttl
\* of 0 uses the configured time to live
C24_SetExpiry == [][SetStores(LAMBDA ttl : ttl # Undefined /\ ttl # 0)]_vars

\* C24 witness: a set without ttl overwrote an older entry of the products
\* namespace and gave it the 10 minute expiry
C24_Witness ==
  /\ call.op = "set"
  /\ call.key = "utiles/products:{}"
  /\ call.args[2] = Undefined
  /\ now > 0
  /\ call.n > 1
  /\ cache[call.key].createdAt = now
  /\ cache[call.key].expiry = now + 600000

-----------------------------------------------------------------------------
(* errorHandler.js *)

\* str.includes(sub)
Contains(str, sub) ==
  \E i \in 1..(Len(str) - Len(sub) + 1) : SubSeq(str, i, i + Len(sub) - 1) = sub

\* new ApiError(statusCode, message): the class sets no name of its own
ApiError(statusCode, message) ==
  [name |-> "Error", code |-> Undefined, keyValue |-> Null, statusCode |-> statusCode,
   type |-> "", message |-> message, isOperational |-> TRUE]

\* an error that is thrown by the driver, a parser or a handler
Thrown(name, code, statusCode, type, message) ==
  [name |-> name, code |-> code,
   keyValue |-> IF code = 11000 THEN Some("_id") ELSE Null,
   statusCode |-> statusCode, type |-> type, message |-> message,
   isOperational |-> FALSE]

\* notFoundHandler: the error passed to next()
notFoundHandler(method, originalUrl) ==
  ApiError(404, "Route not found: " \o method \o " " \o originalUrl)

\* errorHandler: the status and the body of the response
errorHandler(err) ==
  LET status0 == IF err.statusCode = Undefined \/ err.statusCode = 0
                   THEN 500 ELSE err.statusCode
      message0 == IF err.message = "" THEN "Internal Server Error" ELSE err.message
      dup == err.name = "MongoServerError" /\ err.code = 11000
      status1 == IF dup THEN 409 ELSE status0
      message1 == IF dup
                    THEN "Duplicate key error: A document with this value already exists"
                    ELSE message0
      details1 == IF dup THEN err.keyValue ELSE Null
      net == err.name \in {"MongoNetworkError", "MongoTimeoutError"}
      status2 == IF net THEN 503 ELSE status1
      message2 == IF net THEN "Database connection error" ELSE message1
      val == err.name = "ValidationError"
      status3 == IF val THEN 400 ELSE status2
      message3 == IF val THEN "Validation error" ELSE message2
      details3 == IF val THEN Null ELSE details1
      json == err.type = "entity.parse.failed"
      status4 == IF json THEN 400 ELSE status3
      message4 == IF json THEN "Invalid JSON in request body" ELSE message3
      bson == err.name = "BSONError" \/ Contains(err.message, "ObjectId")
      status5 == IF bson THEN 400 ELSE status4
      message5 == IF bson THEN "Invalid ID format" ELSE message4
  IN [status |-> status5,
      body |-> [success |-> FALSE, error |-> message5, details |-> details3]]

ErrorNames ==
  {"Error", "MongoServerError", "MongoNetworkError", "MongoTimeoutError",
   "ValidationError", "BSONError"}
ErrorCodes == {Undefined, 11000, 121}
ErrorMessages ==
  {"", "connection timed out",
   "E11000 duplicate key error collection: db.col index: _id_ dup key: { _id: ObjectId('1') }"}
ApiStatusCodes == {400, 404}
Methods == {"GET", "POST"}
Urls == {"/nope", "/api/db", "/ObjectId"}

\* the errors of the driver and of the handlers carry no status; those of the
\* body parser carry a status and a type; an ApiError carries a status
Errors ==
  {Thrown(name, code, Undefined, "", message) :
     name \in ErrorNames, code \in ErrorCodes, message \in ErrorMessages}
  \cup {Thrown("SyntaxError", Undefined, 400, "entity.parse.failed", message) :
          message \in ErrorMessages}
  \cup {Thrown("PayloadTooLargeError", Undefined, 413, "entity.too.large", message) :
          message \in ErrorMessages}
  \cup {ApiError(statusCode, message) :
          statusCode \in ApiStatusCodes, message \in ErrorMessages}

\* next(err) reaches errorHandler
CallErrorHandler(err) ==
  /\ Called("errorHandler", "", <<err>>, Some(errorHandler(err)))
  /\ UNCHANGED <<now, nticks, cache, dbUp, orders, stock, docs, reqs, lastDone, nreq>>

\* a request that no route matches reaches notFoundHandler, whose error goes
\* to errorHandler
CallNotFoundHandler(method, originalUrl) ==
  CallErrorHandler(notFoundHandler(method, originalUrl))

\* the specification of the error responses: a handler passes an error to
\* next(), or a request matches no route
ErrorInit ==
  /\ now = 0
  /\ nticks = 0
  /\ cache = EmptyMap
  /\ call \in {[op |-> "next", key |-> "", args |-> <<err>>, result |-> Null, n |-> 0] :
                 err \in Errors}
           \cup {[op |-> "unrouted", key |-> "", args |-> <<method, url>>,
                  result |-> Null, n |-> 0] : method \in Methods, url \in Urls}
  /\ dbUp = TRUE
  /\ nreq = 0
  /\ orders = EmptyMap
  /\ stock = EmptyMap
  /\ docs = EmptyMap
  /\ reqs = [s \in Slots |-> Idle]
  /\ lastDone = Null

ErrorNext ==
  \/ call.op = "next" /\ CallErrorHandler(call.args[1])
  \/ call.op = "unrouted" /\ CallNotFoundHandler(call.args[1], call.args[2])

ErrorSpec == ErrorInit /\ [][ErrorNext]_vars

\* C25 as claimed: a duplicate-key error is answered 409 with the conflicting
\* key as details, a network or timeout error 503, an ApiError with its own
\* status (404 for an undefined route), any other error 500, always with
\* success false, whatever the text of the error's message
C25_Claimed ==
  call.op = "errorHandler" =>
    LET err == call.args[1]
        res == call.result[1]
    IN /\ res.body.success = FALSE
       /\ (err.name = "MongoServerError" /\ err.code = 11000) =>
            res.status = 409 /\ res.body.details = err.keyValue
       /\ err.name \in {"MongoNetworkError", "MongoTimeoutError"} => res.status = 503
       /\ err.isOperational => res.status = err.statusCode
       /\ (/\ err.name \in {"Error", "MongoServerError"}
           /\ ~(err.name = "MongoServerError" /\ err.code = 11000)
           /\ ~err.isOperational
           /\ err.statusCode = Undefined) => res.status = 500

-----------------------------------------------------------------------------
(* genericController.patch on the collection of the orders *)

\* PATCH /api/utiles/orders/:id with the body {status} arrives: the two
\* validations (the body has a field), then findOneAndUpdate is issued
PatchOrderStart(s, id, status) ==
  LET req == [op |-> "patch", pc |-> "update", id |-> id, status |-> status,
              again |-> FALSE, loop |-> "none", i |-> 0, items |-> <<>>,
              stock0 |-> stock]
  IN /\ CanStart(s)
     /\ nreq' = nreq + 1
     /\ IF ~ObjectIdIsValid(id)
          THEN Respond(s, Sent(req), 400, Null)
          ELSE reqs' = [reqs EXCEPT ![s] = req] /\ UNCHANGED lastDone
     /\ UNCHANGED <<now, nticks, cache, call, dbUp, orders, stock, docs>>

\* findOneAndUpdate({_id}, {$set: data}) returns: 404, or the order after the
\* $set of the body; the lists of the collection are invalidated
PatchOrderReturns(s) ==
  LET req == reqs[s]
      found == req.id \in DOMAIN orders
      after == [orders[req.id] EXCEPT !.status = req.status]
  IN /\ req.op = "patch" /\ req.pc = "update"
     /\ IF ~dbUp THEN Fail(s, Sent(req)) /\ UNCHANGED <<cache, orders>>
        ELSE IF ~found THEN Respond(s, Sent(req), 404, Null) /\ UNCHANGED <<cache, orders>>
        ELSE /\ orders' = [orders EXCEPT ![req.id] = after]
             /\ cache' = invalidateCollectionCache(cache, "utiles", "orders")
             /\ Respond(s, Sent(req), 200, Some(after))
     /\ UNCHANGED <<now, nticks, call, dbUp, stock, docs, nreq>>

\* non-overlapping status changes of the orders, through updateStatus and
\* through the generic PATCH
OrderPatchNext ==
  \/ \E id \in RequestIds, st \in RequestStatuses :
        AllIdle /\ UpdateStatusStart(1, id, st)
  \/ \E id \in RequestIds, st \in VALID_STATUSES :
        AllIdle /\ PatchOrderStart(1, id, st)
  \/ UpdateStatusSteps
  \/ PatchOrderReturns(1)

OrderPatchSpec == OrderInit /\ [][OrderPatchNext]_vars

\* the stock after the loop of decrementStock ("dec") or restoreStock ("res")
\* over the items from position i on
RECURSIVE StockAfter(_, _, _, _)
StockAfter(st, items, loop, i) ==
  IF loop = "none" \/ i > Len(items) THEN st
  ELSE IF Skipped(items[i]) THEN StockAfter(st, items, loop, i + 1)
  ELSE StockAfter(IncStock(st, items[i].refid,
                           IF loop = "dec" THEN 0 - items[i].quantity
                           ELSE items[i].quantity),
                  items, loop, i + 1)

\* the step answers the request of slot 1, of operation op, with success
StatusChanged(op) ==
  /\ reqs[1].op = op
  /\ reqs[1].pc = "update"
  /\ Answers(1)
  /\ lastDone'[1].code = 200
  /\ reqs[1].id \in DOMAIN orders

\* the step leaves the stock and the flag that updateStatus leaves for the
\* order as it was and the new status
LeavesStockOfUpdateStatus ==
  LET order == orders[reqs[1].id]
      loop == handleStockOnStatusChange(order, reqs[1].status)
  IN /\ stock' = StockAfter(reqs[1].stock0, order.items, loop, 1)
     /\ orders'[reqs[1].id] = UpdateData(order, reqs[1].status, loop)

\* C26 as claimed: for the same prior order and new status, a status change
\* through the generic PATCH on utiles/orders leaves the same product stock
\* and the same stockDescontado value as updateStatus
C26_Claimed == [][StatusChanged("patch") => LeavesStockOfUpdateStatus]_vars

-----------------------------------------------------------------------------
(* routes/api.js, routes/uploadRoutes.js and their mounting in server.js *)

\* a route: its method, the segments of its path, its handler
Route(method, path, handler) == [method |-> method, path |-> path, handler |-> handler]

\* routes/api.js, in registration order
apiRoutes ==
  << Route("GET", <<"cache", "stats">>, "cache.getStats"),
     Route("POST", <<"cache", "clear">>, "cache.clear"),
     Route("POST", <<"cache", "cleanup">>, "cache.cleanup"),
     Route("GET", <<":database", ":collection", "count">>, "controller.count"),
     Route("GET", <<":database", ":collection", "distinct", ":field">>, "controller.distinct"),
     Route("POST", <<":database", ":collection", "search">>, "controller.search"),
     Route("POST", <<":database", ":collection", "bulk">>, "controller.createMany"),
     Route("DELETE", <<":database", ":collection", "bulk">>, "controller.removeMany"),
     Route("GET", <<":database", ":collection">>, "controller.getAll"),
     Route("GET", <<":database", ":collection", ":id">>, "controller.getOne"),
     Route("POST", <<":database", ":collection">>, "controller.create"),
     Route("PUT", <<":database", ":collection", ":id">>, "controller.update"),
     Route("PATCH", <<":database", ":collection", ":id">>, "controller.patch"),
     Route("DELETE", <<":database", ":collection", ":id">>, "controller.remove") >>

\* routes/uploadRoutes.js, in registration order
uploadRoutes ==
  << Route("POST", <<"image">>, "uploadImage"),
     Route("POST", <<"images">>, "uploadMultipleImages"),
     Route("DELETE", <<"image", ":publicId">>, "deleteImage") >>

\* a router mounted by app.use(path, router)
Mount(path, router) == [path |-> path, router |-> router]

\* server.js: app.use('/api', apiRoutes); app.use('/api/upload', uploadRoutes)
Mounts ==
  << Mount(<<"api">>, apiRoutes), Mount(<<"api", "upload">>, uploadRoutes) >>

\* a segment of a route's path matches a segment of the request's path: a
\* parameter matches any segment, a literal matches itself
SegmentMatches(pattern, segment) ==
  IF SubSeq(pattern, 1, 1) = ":" THEN segment # "" ELSE pattern = segment

RouteMatches(route, method, path) ==
  /\ route.method = method
  /\ Len(route.path) = Len(path)
  /\ \A i \in 1..Len(path) : SegmentMatches(route.path[i], path[i])

\* the handler of the first route of the router, from index i on, that
\* matches; "next" when none does
RECURSIVE RouterFrom(_, _, _, _)
RouterFrom(router, i, method, path) ==
  IF i > Len(router) THEN "next"
  ELSE IF RouteMatches(router[i], method, path) THEN router[i].handler
  ELSE RouterFrom(router, i + 1, method, path)

\* the path starts with the mount path
Mounted(mount, path) ==
  Len(mount) <= Len(path) /\ SubSeq(path, 1, Len(mount)) = mount

\* the handler that answers the request: the mounts are tried in order from
\* index i on, each with the rest of the path; notFoundHandler comes last
RECURSIVE DispatchFrom(_, _, _, _)
DispatchFrom(mounts, i, method, path) ==
  IF i > Len(mounts) THEN "notFoundHandler"
  ELSE LET mount == mounts[i]
           handler == IF Mounted(mount.path, path)
                        THEN RouterFrom(mount.router, 1, method,
                                        SubSeq(path, Len(mount.path) + 1, Len(path)))
                        ELSE "next"
       IN IF handler # "next" THEN handler
          ELSE DispatchFrom(mounts, i + 1, method, path)

Dispatch(method, path) == DispatchFrom(Mounts, 1, method, path)

HttpMethods == {"GET", "POST", "PUT", "PATCH", "DELETE"}
RequestPaths ==
  { <<"api", "cache", "stats">>, <<"api", "cache", "clear">>, <<"api", "cache", "cleanup">>,
    <<"api", "db", "col">>, <<"api", "db", "col", "1">>, <<"api", "db", "col", "count">>,
    <<"api", "db", "col", "distinct", "a">>, <<"api", "db", "col", "search">>,
    <<"api", "db", "col", "bulk">>, <<"api", "db">>, <<"api">>,
    <<"api", "upload", "image">>, <<"api", "upload", "images">>,
    <<"api", "upload", "image", "abc">>, <<"api", "upload">>,
    <<"api", "db", "col", "1", "x">>, <<"other">>, <<"api", "utiles", "orders">>,
    <<"api", "utiles", "orders", "o1">>, <<"api", "utiles", "products", "count">> }

\* a request reaches the application and is handled
CallDispatch(method, path) ==
  /\ Called("dispatch", "", <<method, path>>, Some(Dispatch(method, path)))
  /\ UNCHANGED <<now, nticks, cache, dbUp, orders, stock, docs, reqs, lastDone, nreq>>

\* the specification of the dispatch: a request of any method and path
\* arrives and is handled
DispatchInit ==
  /\ now = 0
  /\ nticks = 0
  /\ cache = EmptyMap
  /\ call \in {[op |-> "request", key |-> "", args |-> <<method, path>>,
                result |-> Null, n |-> 0] : method \in HttpMethods, path \in RequestPaths}
  /\ dbUp = TRUE
  /\ nreq = 0
  /\ orders = EmptyMap
  /\ stock = EmptyMap
  /\ docs = EmptyMap
  /\ reqs = [s \in Slots |-> Idle]
  /\ lastDone = Null

DispatchNext == call.op = "request" /\ CallDispatch(call.args[1], call.args[2])

DispatchSpec == DispatchInit /\ [][DispatchNext]_vars

\* the requests to the routes that have a dedicated handler, with that handler
DedicatedRoutes ==
  { <<"GET", <<"api", "cache", "stats">>, "cache.getStats">>,
    <<"POST", <<"api", "cache", "clear">>, "cache.clear">>,
    <<"POST", <<"api", "cache", "cleanup">>, "cache.cleanup">>,
    <<"GET", <<"api", "db", "col", "count">>, "controller.count">>,
    <<"GET", <<"api", "utiles", "products", "count">>, "controller.count">>,
    <<"GET", <<"api", "db", "col", "distinct", "a">>, "controller.distinct">>,
    <<"POST", <<"api", "db", "col", "search">>, "controller.search">>,
    <<"POST", <<"api", "db", "col", "bulk">>, "controller.createMany">>,
    <<"DELETE", <<"api", "db", "col", "bulk">>, "controller.removeMany">>,
    <<"POST", <<"api", "upload", "image">>, "uploadImage">>,
    <<"POST", <<"api", "upload", "images">>, "uploadMultipleImages">>,
    <<"DELETE", <<"api", "upload", "image", "abc">>, "deleteImage">> }

\* C28 as claimed: every request to a route that has a dedicated handler (the
\* cache routes, count, distinct, search, bulk and the three upload routes)
\* is handled by that handler, never by getAll, getOne, create, update, patch
\* or remove
C28_Claimed ==
  call.op = "dispatch" =>
    \A d \in DedicatedRoutes :
      (call.args[1] = d[1] /\ call.args[2] = d[2]) => call.result[1] = d[3]

\* the lists that earlier getAll requests on other collections left in the
\* cache: a collection whose name begins with "col", one with a parameterized
\* list, another collection of the database, and the collection col of
\* another database
OtherListKeys ==
  {getCacheKey(DATABASE, "colArchive", <<>>),
   getCacheKey(DATABASE, "colArchive", << <<"a", "x">> >>),
   getCacheKey(DATABASE, "other", <<>>),
   getCacheKey("db2", COLLECTION, <<>>)}

\* db/col holds one document; the lists of the other collections are cached
IsolationInit ==
  /\ now = 0 /\ nticks = 0 /\ call = NoCall /\ dbUp = TRUE /\ nreq = 0
  /\ cache = [k \in OtherListKeys |->
                [data |-> "list", expiry |-> getTTL(k), createdAt |-> 0]]
  /\ orders = EmptyMap
  /\ stock = EmptyMap
  /\ docs = << Some([a |-> "x", createdAt |-> Stamp(0), updatedAt |-> Stamp(0)]) >>
  /\ reqs = [s \in Slots |-> Idle]
  /\ lastDone = Null

\* non-overlapping requests on db/col while lists of other collections are
\* cached
IsolationSpec == IsolationInit /\ [][GatewaySeqNext]_vars

\* the step answers a write on db/col with success
WriteDone ==
  \E s \in Slots : Answers(s) /\ WriteSucceeded(lastDone') /\ reqs[s].op \in WriteOps

\* the database/collection that a list key was stored for
ListOf(key) == Split(key, ":")[1]

\* C29 as claimed: a successful write on db/col removes no cache entry stored
\* for a list of another collection, of the same or another database, also
\* when "col" is a proper prefix of the other collection's name
C29_Claimed ==
  [][WriteDone => ~Removes(LAMBDA k : ListOf(k) # "db/col")]_vars

\* C29 amended: a successful write on db/col removes no cache entry stored for
\* a list of another collection, unless "db/col" is a prefix of that
\* collection's "database/collection"
C29_OtherCollectionsKept ==
  [][WriteDone =>
       ~Removes(LAMBDA k : ListOf(k) # "db/col" /\ ~StartsWith(ListOf(k), "db/col"))]_vars

\* C29 witness: a write on db/col succeeded; the lists of db/other and db2/col
\* are still cached, those of db/colArchive are gone
C29_Witness ==
  /\ WriteSucceeded(lastDone)
  /\ "db/other" \in DOMAIN cache
  /\ "db2/col" \in DOMAIN cache
  /\ \A k \in DOMAIN cache : ListOf(k) # "db/colArchive"

\* a list payload is consistent: count is the number of documents of data,
\* and is the total (no request of the model skips or limits)
Consistent(payload) ==
  /\ payload.meta.count = Len(payload.data)
  /\ payload.meta.count <= payload.meta.total
  /\ payload.meta.count = payload.meta.total

\* C30 as claimed: every list payload that getAll returns or stores in the
\* cache has meta.count equal to the number of documents in data, at most
\* meta.total and, without skip and limit, equal to meta.total, also when
\* writes on the collection interleave with the request between its find and
\* its count
C30_Claimed ==
  /\ \A k \in DOMAIN cache : Consistent(cache[k].data)
  /\ (lastDone # Null /\ lastDone[1].req.op = "getAll" /\ lastDone[1].body # Null)
       => Consistent(lastDone[1].body[1])

=============================================================================
